---- MODULE Spec2Model ----
(***************************************************************************)
(* Model of the mk command-line client (lifeavg/mk): the Input Resolver    *)
(* (handlers.load_json_data), the Result Envelope (api.Response), the      *)
(* Domain Clients' reductions (handlers.py), the delay models (models.py), *)
(* the                                                                     *)
(* Settings Record/Store (settings.py, handlers.Settings, handlers.App)    *)
(* and the CLI delay dispatch (cli.Cli._service_delay).                    *)
(*                                                                         *)
(* Python strings are sequences of one-character strings.  Formatted       *)
(* messages (f-strings) are sequences of parts, one per literal piece or   *)
(* interpolated value, inside a record [t |-> "str", parts |-> ...].         *)
(* Python's None is the record None.                                       *)
(***************************************************************************)
EXTENDS Integers, Sequences, FiniteSets, TLC

VARIABLES
    pc,        \* position of the process / of the function under check
    file,      \* the settings file on disk (handlers.Settings.file)
    current,   \* handlers.Settings.current (Unset until first assigned)
    autosave,  \* handlers.Settings.autosave
    client,    \* the Settings Record bound into the Domain Clients by App.reset
    fs,        \* the files a JSON-bearing argument can name: path -> contents
    arg,       \* the string argument handed to the Input Resolver
    call,      \* the operation invoked and its arguments
    sent,      \* the HTTP requests issued by the current invocation, in order
    env,       \* the Envelope the last transport call was reduced to
    ret        \* what the invoked operation returned or raised

vars == <<pc, file, current, autosave, client, fs, arg, call, sent, env, ret>>

-----------------------------------------------------------------------------
(* Bounds *)

MaxArgLen == 3      \* longest exhaustively enumerated argument string
MaxDelay == 1       \* delay arguments range over -1 .. MaxDelay

-----------------------------------------------------------------------------
(* Python values *)

None == [t |-> "None"]
Unset == [t |-> "unset"]                 \* attribute declared, never assigned
Str(parts) == [t |-> "str", parts |-> parts]
Lit(text) == [lit |-> text]              \* literal piece of an f-string
Num(n) == [int |-> n]                    \* interpolated integer
Chars(s) == [chars |-> s]                \* interpolated string / path / url

\* `if not err` / `if err`: None and the empty string are falsy
Truthy(e) == IF e = None THEN FALSE ELSE e.parts # <<>>

\* str[:n] == literal prefix (test_load_json_data_not_json: str(err)[:19])
StartsWith(e, text) == IF e = None THEN FALSE
                       ELSE e.parts # <<>> /\ e.parts[1] = Lit(text)
\* the message interpolates the value x somewhere
Names(e, x) == IF e = None THEN FALSE
               ELSE \E i \in 1..Len(e.parts) : e.parts[i] = Chars(x)

\* exception.errno of the OSError subclasses open() raises
Errno == [FileNotFoundError |-> 2, IsADirectoryError |-> 21,
          PermissionError |-> 13, BlockingIOError |-> 11]

Returned(data, err) == [kind |-> "return", data |-> data, err |-> err]
Raised(exc) == [kind |-> "raise", exc |-> exc]
NoRet == [kind |-> "none"]                \* nothing invoked yet
NoCall == [op |-> "none"]
NoEnv == [t |-> "none"]                   \* no Envelope produced

-----------------------------------------------------------------------------
(* json.loads, restricted to the characters of Alphabet (no comma, no      *)
(* backslash, no newline, no sign/fraction/exponent, no literal names):    *)
(* CPython json/decoder.py and json/scanner.py                             *)

Alphabet == {" ", "{", "}", "[", "]", "\"", ":", "1", "0", "a"}
Whitespace == {" "}
Digits == {"0", "1"}
DigitVal(c) == IF c = "1" THEN 1 ELSE 0

\* s[i:i+1] with a 0-based index: "" past the end
Ch(s, i) == IF i < Len(s) THEN s[i + 1] ELSE ""

\* WHITESPACE.match(s, i).end()
RECURSIVE SkipWs(_, _)
SkipWs(s, i) == IF Ch(s, i) \in Whitespace THEN SkipWs(s, i + 1) ELSE i

\* str.strip()
RECURSIVE LStrip(_)
LStrip(s) == IF s # <<>> /\ Head(s) \in Whitespace THEN LStrip(Tail(s)) ELSE s
RECURSIVE RStrip(_)
RStrip(s) == IF s # <<>> /\ s[Len(s)] \in Whitespace
             THEN RStrip(SubSeq(s, 1, Len(s) - 1)) ELSE s
Strip(s) == RStrip(LStrip(s))

JOk(val, end) == [ok |-> TRUE, val |-> val, end |-> end]
JErr(msg, pos) == [ok |-> FALSE, msg |-> msg, pos |-> pos]

JStr(s) == [t |-> "jstr", s |-> s]
JInt(n) == [t |-> "int", n |-> n]
JList(items) == [t |-> "list", items |-> items]
JDict(items) == [t |-> "dict", items |-> items]
IsDict(v) == v.t = "dict"                  \* isinstance(json_data, dict)

\* index of the next '"' at or after i, or Len(s) when there is none
FindQuote(s, i) ==
    IF i >= Len(s) THEN i
    ELSE IF \A j \in i..(Len(s) - 1) : s[j + 1] # "\"" THEN Len(s)
    ELSE CHOOSE j \in i..(Len(s) - 1) :
            s[j + 1] = "\"" /\ \A k \in i..(j - 1) : s[k + 1] # "\""

\* py_scanstring(s, end): end is the index after the opening quote
ScanString(s, end) ==
    LET Closing(q) ==
            IF q >= Len(s) THEN JErr("Unterminated string starting at", end - 1)
            ELSE JOk(JStr(SubSeq(s, end + 1, q)), q + 1)
    IN  Closing(FindQuote(s, end))

\* NUMBER_RE: (0|[1-9][0-9]*) ; end index of the integer starting at i
RECURSIVE DigitsEnd(_, _)
DigitsEnd(s, i) == IF Ch(s, i) \in Digits THEN DigitsEnd(s, i + 1) ELSE i
RECURSIVE IntOf(_, _, _)
IntOf(s, i, j) == IF i >= j THEN 0
                  ELSE IntOf(s, i, j - 1) * 10 + DigitVal(s[j])
ScanNumber(s, idx) ==
    IF Ch(s, idx) = "0" THEN JOk(JInt(0), idx + 1)
    ELSE LET Matched(e) == JOk(JInt(IntOf(s, idx, e)), e)
         IN  Matched(DigitsEnd(s, idx))

RECURSIVE ScanOnce(_, _), JSONObject(_, _), JSONArray(_, _)

\* scanner.py_make_scanner._scan_once; the StopIteration(idx) it raises is
\* turned by every caller into JSONDecodeError("Expecting value", s, idx)
ScanOnce(s, idx) ==
    LET Scan(c) ==
            CASE c = "\"" -> ScanString(s, idx + 1)
              [] c = "{" -> JSONObject(s, idx + 1)
              [] c = "[" -> JSONArray(s, idx + 1)
              [] c \in Digits -> ScanNumber(s, idx)
              [] OTHER -> JErr("Expecting value", idx)
    IN  Scan(Ch(s, idx))

\* decoder.JSONObject, up to the first pair (a second pair needs a comma)
JSONObject(s, end0) ==
    LET Closed(key, value, end4) ==
            IF Ch(s, end4) = "}"
            THEN JOk(JDict(<<[k |-> key.val.s, v |-> value.val]>>), end4 + 1)
            ELSE JErr("Expecting ',' delimiter", end4)
        Valued(key, value) ==
            IF ~value.ok THEN value ELSE Closed(key, value, SkipWs(s, value.end))
        Keyed(key, end2) ==
            IF Ch(s, end2) # ":" THEN JErr("Expecting ':' delimiter", end2)
            ELSE Valued(key, ScanOnce(s, SkipWs(s, end2 + 1)))
        Named(key) ==
            IF ~key.ok THEN key
            ELSE Keyed(key, IF Ch(s, key.end) # ":" THEN SkipWs(s, key.end)
                            ELSE key.end)
        Opened(end1) ==
            IF Ch(s, end1) = "}" THEN JOk(JDict(<<>>), end1 + 1)
            ELSE IF Ch(s, end1) # "\""
            THEN JErr("Expecting property name enclosed in double quotes", end1)
            ELSE Named(ScanString(s, end1 + 1))
    IN  Opened(IF Ch(s, end0) # "\"" /\ Ch(s, end0) \in Whitespace
               THEN SkipWs(s, end0) ELSE end0)

\* decoder.JSONArray, up to the first element
JSONArray(s, end0) ==
    LET Closed(value, end2) ==
            IF Ch(s, end2) = "]" THEN JOk(JList(<<value.val>>), end2 + 1)
            ELSE JErr("Expecting ',' delimiter", end2)
        Valued(value) ==
            IF ~value.ok THEN value ELSE Closed(value, SkipWs(s, value.end))
        Opened(end1) ==
            IF Ch(s, end1) = "]" THEN JOk(JList(<<>>), end1 + 1)
            ELSE Valued(ScanOnce(s, end1))
    IN  Opened(SkipWs(s, end0))

\* JSONDecoder.decode / raw_decode
JsonLoads(s) ==
    LET Ended(r, end) == IF end # Len(s) THEN JErr("Extra data", end) ELSE r
        Decoded(r) == IF ~r.ok THEN r ELSE Ended(r, SkipWs(s, r.end))
    IN  Decoded(ScanOnce(s, SkipWs(s, 0)))

\* the text both load_json_string and load_json_file format from a
\* JSONDecodeError: no newline in Alphabet, so lineno = 1, colno = pos + 1
DecodeErrorParts(e) ==
    <<Lit("JSON decode error. "), Lit(e.msg), Lit(": line "), Num(1),
      Lit(" column "), Num(e.pos + 1), Lit(" (char "), Num(e.pos), Lit(")")>>

-----------------------------------------------------------------------------
(* Input Resolver: handlers.py load_json_string / load_json_file /         *)
(* load_json_data                                                          *)

Missing == [t |-> "missing"]               \* no such file
FileOf(content) == [t |-> "file", content |-> content]

load_json_string(data) ==
    LET Loaded(r) ==
            IF r.ok
            THEN IF IsDict(r.val) THEN Returned(r.val, None)
                 ELSE Returned(JDict(<<>>), Str(<<Lit("Unsupported JSON format")>>))
            ELSE Returned(JDict(<<>>), Str(DecodeErrorParts(r)))
    IN  Loaded(JsonLoads(data))

\* NAME_MAX of the file system: os.stat and open fail with ENAMETOOLONG
\* (an OSError that is no FileNotFoundError) on a longer path component.
\* No "/" in Alphabet: a string is one component.
NameMax == 255
NameTooLong(path) == Len(path) > NameMax

\* pathlib.Path('') is '.', the current directory
IsCurrentDir(path) == path = <<>>

load_json_file(path, files) ==
    IF IsCurrentDir(path) THEN Raised("IsADirectoryError")
    ELSE IF NameTooLong(path) THEN Raised("OSError")
    ELSE IF path \notin DOMAIN files \/ files[path] = Missing
    THEN Returned(JDict(<<>>),
                  Str(<<Num(Errno.FileNotFoundError), Lit(" No such file "), Chars(path)>>))
    ELSE LET r == JsonLoads(files[path].content)
         IN  IF r.ok
             THEN IF IsDict(r.val) THEN Returned(r.val, None)
                  ELSE Returned(JDict(<<>>),
                         Str(<<Lit("Unsupported JSON format in "), Chars(path)>>))
             ELSE Returned(JDict(<<>>),
                    Str(DecodeErrorParts(r) \o <<Lit(". File "), Chars(path)>>))

\* pathlib.Path(data).is_file() when it returns: ENOENT and a directory
\* give False
is_file(path, files) == path \in DOMAIN files /\ files[path] # Missing

\* mutant: every argument is opened as a file, the is_file() test is dropped
load_json_data_nocheck(data, files) == load_json_file(Strip(data), files)

\* is_file() only swallows ENOENT, ENOTDIR, EBADF and ELOOP: the
\* ENAMETOOLONG of its stat call leaves load_json_data as an OSError
load_json_data(data, files) ==
    LET trimmed == Strip(data)
    IN  IF NameTooLong(trimmed) THEN Raised("OSError")
        ELSE IF is_file(trimmed, files) THEN load_json_file(trimmed, files)
        ELSE load_json_string(trimmed)

-----------------------------------------------------------------------------
(* Settings Record: settings.py.  A settings file holds JSON text; a       *)
(* decodable text is kept as the value json.load returns for it, an object *)
(* as a function from its keys to JSON values.                             *)

JBool(b) == [t |-> "bool", b |-> b]
JNull == [t |-> "null"]                     \* JSON null, Python None
JObject(f) == [t |-> "object", f |-> f]     \* a dict with keys DOMAIN f
JArray == [t |-> "array"]                   \* a top-level list

\* contents json.load rejects (an empty file: "Expecting value" at char 0)
BadJson == [t |-> "badjson", msg |-> "Expecting value", pos |-> 0]
JsonText(v) == [t |-> "file", json |-> v]   \* contents json.load decodes to v

Directory == [t |-> "dir"]
Unreadable == [t |-> "noperm"]
Locked == [t |-> "locked"]

SettingsFile == <<"s", "e", "t", "t", "i", "n", "g", "s", ".", "j", "s", "o", "n">>

\* bool(x) of the values a settings field can decode to
Falsy(v) == \/ v = JNull
            \/ v.t = "jstr" /\ v.s = <<>>
            \/ v.t = "int" /\ v.n = 0
            \/ v.t = "bool" /\ v.b = FALSE

\* Settings(host=..., api_request_timeout=..., shutdown_disabled=...):
\* the frozen dataclass stores whatever values it is given
Settings(host, api_request_timeout, shutdown_disabled) ==
    [host |-> host, api_request_timeout |-> api_request_timeout,
     shutdown_disabled |-> shutdown_disabled]

settings_generate(host, api_request_timeout, shutdown_disabled) ==
    Settings(host, api_request_timeout, shutdown_disabled)

SettingsKeys == {"host", "api_request_timeout", "shutdown_disabled"}

\* Settings.generate(**json_settings): the call binds keyword arguments, so
\* anything but a mapping with exactly the three parameter names is a
\* TypeError
generate_from_json(json_settings) ==
    IF json_settings.t # "object" THEN Raised("TypeError")
    ELSE IF DOMAIN json_settings.f # SettingsKeys THEN Raised("TypeError")
    ELSE Returned(settings_generate(json_settings.f["host"],
                                    json_settings.f["api_request_timeout"],
                                    json_settings.f["shutdown_disabled"]), None)

\* mutant: only the host is validated
LoadValidation_host_only(new_settings, settings_file) ==
    IF Falsy(new_settings.host)
    THEN Str(<<Lit("Default host not set in "), Chars(settings_file)>>)
    ELSE None

\* the three validation ifs of Settings.load, a later one overwriting
LoadValidation(new_settings, settings_file) ==
    IF new_settings.shutdown_disabled = JNull
    THEN Str(<<Lit("shutdown_disabled not set in "), Chars(settings_file)>>)
    ELSE IF Falsy(new_settings.api_request_timeout)
    THEN Str(<<Lit("api_request_timeout not set in "), Chars(settings_file)>>)
    ELSE IF Falsy(new_settings.host)
    THEN Str(<<Lit("Default host not set in "), Chars(settings_file)>>)
    ELSE None

DefaultSettings == Settings(JStr(<<>>), JInt(0), JBool(FALSE))    \* Settings()

\* settings.Settings.load(settings_file): (new_settings, err) or an exception
\* none of its except clauses names
settings_load(settings_file, state) ==
    CASE state = Missing ->
           Returned(DefaultSettings,
                    Str(<<Num(Errno.FileNotFoundError), Lit(" No such file "),
                          Chars(settings_file)>>))
      [] state = Directory ->
           Returned(DefaultSettings,
                    Str(<<Num(Errno.IsADirectoryError), Lit(" "), Chars(settings_file),
                          Lit(" is a directory")>>))
      [] state = Unreadable ->
           Returned(DefaultSettings,
                    Str(<<Num(Errno.PermissionError), Lit(" Unable to read, permission denied "),
                          Chars(settings_file)>>))
      [] state = Locked ->
           Returned(DefaultSettings,
                    Str(<<Num(Errno.BlockingIOError),
                          Lit(" Unable to read, file in use by another app "),
                          Chars(settings_file)>>))
      [] state = BadJson ->
           Returned(DefaultSettings,
                    Str(DecodeErrorParts(state)
                        \o <<Lit(". File "), Chars(settings_file)>>))
      [] OTHER ->
           LET g == generate_from_json(state.json)
           IN  IF g.kind = "raise" THEN g
               ELSE Returned(g.data, LoadValidation(g.data, settings_file))

\* mutant: the record read is adopted whatever the error
store_load_adopt_on_error(settings_file, state, cur) ==
    LET r == settings_load(settings_file, state)
    IN  IF r.kind = "raise" THEN [ret |-> r, current |-> cur]
        ELSE [ret |-> Returned(None, r.err), current |-> r.data]

\* mutant: a failed load drops the record the store held
store_load_clear_on_error(settings_file, state, cur) ==
    LET r == settings_load(settings_file, state)
    IN  IF r.kind = "raise" THEN [ret |-> r, current |-> cur]
        ELSE [ret |-> Returned(None, r.err),
              current |-> IF r.err = None THEN r.data ELSE Unset]

\* handlers.Settings.load: the value returned or raised, and the new current
store_load(settings_file, state, cur) ==
    LET r == settings_load(settings_file, state)
    IN  IF r.kind = "raise" THEN [ret |-> r, current |-> cur]
        ELSE [ret |-> Returned(None, r.err),
              current |-> IF r.err = None THEN r.data ELSE cur]

\* a settings file that can be read but not written, holding v
ReadOnly(v) == [t |-> "rofile", json |-> v]

\* mutant: the shutdown flag is not written
json_dumps_asdict_no_flag(self) ==
    JObject([k \in SettingsKeys \ {"shutdown_disabled"} |-> self[k]])

\* json.dumps(asdict(self), indent=4): the object json.load reads back, one
\* member per dataclass field
json_dumps_asdict(self) == JObject([k \in SettingsKeys |-> self[k]])

\* settings.Settings.write(settings_file): the error returned and the file
\* afterwards; open('w') creates a missing file and truncates an existing one
settings_write(self, settings_file, state) ==
    CASE state = Directory ->
           [ret |-> Returned(None,
                      Str(<<Num(Errno.IsADirectoryError), Lit(" "), Chars(settings_file),
                            Lit(" is a directory")>>)),
            file |-> state]
      [] state = Unreadable \/ state.t = "rofile" ->
           [ret |-> Returned(None,
                      Str(<<Num(Errno.PermissionError),
                            Lit(" Unable to write, permission denied "),
                            Chars(settings_file)>>)),
            file |-> state]
      [] state = Locked ->
           [ret |-> Returned(None,
                      Str(<<Num(Errno.BlockingIOError),
                            Lit(" Unable to write, file in use by another app "),
                            Chars(settings_file)>>)),
            file |-> state]
      [] OTHER ->
           [ret |-> Returned(None, None), file |-> JsonText(json_dumps_asdict(self))]

\* bool(self.current): the dataclass defines neither __bool__ nor __len__
RecordTruthy(cur) == TRUE

\* mutant: save reports success without writing
store_save_without_write(settings_file, state, cur) ==
    IF cur = Unset THEN [ret |-> Raised("AttributeError"), file |-> state]
    ELSE [ret |-> settings_write(cur, settings_file, state).ret, file |-> state]

\* handlers.Settings.save; self.current is only annotated in __init__, so
\* reading it before the first assignment is an AttributeError
store_save(settings_file, state, cur) ==
    IF cur = Unset THEN [ret |-> Raised("AttributeError"), file |-> state]
    ELSE IF RecordTruthy(cur) THEN settings_write(cur, settings_file, state)
    ELSE [ret |-> Returned(None, Str(<<Lit("No current settings found to save")>>)),
          file |-> state]

\* mutant: the autosave flag is not consulted
autosaved_always(settings_file, state, cur, auto) ==
    store_save(settings_file, state, cur)

\* handlers.Settings._autosaved
autosaved(settings_file, state, cur, auto) ==
    IF auto THEN store_save(settings_file, state, cur)
    ELSE [ret |-> Returned(None, None), file |-> state]

\* mutant: the record is only replaced when the save succeeded
replace_if_saved(settings_file, state, cur, auto, new) ==
    LET s == autosaved(settings_file, state, new, auto)
    IN  [ret |-> s.ret, file |-> s.file,
         current |-> IF s.ret = Returned(None, None) THEN new ELSE cur]

\* self.current = settings.Settings.generate(...); return self._autosaved()
replace_current(settings_file, state, cur, auto, new) ==
    LET s == autosaved(settings_file, state, new, auto)
    IN  [ret |-> s.ret, file |-> s.file, current |-> new]

\* the argument expression reads self.current.<field> before the assignment
no_current(state, cur) ==
    [ret |-> Raised("AttributeError"), file |-> state, current |-> cur]

store_generate(settings_file, state, cur, auto, host, timeout, disabled) ==
    replace_current(settings_file, state, cur, auto,
                    settings_generate(host, timeout, disabled))

change_host(settings_file, state, cur, auto, host) ==
    IF cur = Unset THEN no_current(state, cur)
    ELSE replace_current(settings_file, state, cur, auto,
            settings_generate(host, cur.api_request_timeout, cur.shutdown_disabled))

change_api_request_timeout(settings_file, state, cur, auto, timeout) ==
    IF cur = Unset THEN no_current(state, cur)
    ELSE replace_current(settings_file, state, cur, auto,
            settings_generate(cur.host, timeout, cur.shutdown_disabled))

enable_shutdown(settings_file, state, cur, auto) ==
    IF cur = Unset THEN no_current(state, cur)
    ELSE replace_current(settings_file, state, cur, auto,
            settings_generate(cur.host, cur.api_request_timeout, JBool(FALSE)))

\* mutant: the flag is flipped instead of set
disable_shutdown_toggle(settings_file, state, cur, auto) ==
    IF cur = Unset THEN no_current(state, cur)
    ELSE replace_current(settings_file, state, cur, auto,
            settings_generate(cur.host, cur.api_request_timeout,
                              JBool(cur.shutdown_disabled # JBool(TRUE))))

disable_shutdown(settings_file, state, cur, auto) ==
    IF cur = Unset THEN no_current(state, cur)
    ELSE replace_current(settings_file, state, cur, auto,
            settings_generate(cur.host, cur.api_request_timeout, JBool(TRUE)))

-----------------------------------------------------------------------------
(* Result Envelope: api.py Response.process_response *)

\* requests.exceptions: the direct bases of each exception class
Bases == [ConnectTimeout |-> {"ConnectionError", "Timeout"},
          ReadTimeout |-> {"Timeout"},
          Timeout |-> {"RequestException"},
          TooManyRedirects |-> {"RequestException"},
          URLRequired |-> {"RequestException"},
          HTTPError |-> {"RequestException"},
          ConnectionError |-> {"RequestException"},
          SSLError |-> {"ConnectionError"},
          InvalidURL |-> {"RequestException", "ValueError"},
          JSONDecodeError |-> {"RequestException", "ValueError"},
          RequestException |-> {},
          ValueError |-> {}]

RECURSIVE IsSubclass(_, _)
IsSubclass(c, d) == c = d \/ \E b \in Bases[c] : IsSubclass(b, d)

\* mutant: the generic timeout clause comes before its two subtypes
ExceptClauses_timeout_first == <<
    [cls |-> "Timeout", msg |-> "The request timed out."],
    [cls |-> "ConnectTimeout",
     msg |-> "The request timed out while trying to connect to the remote server."],
    [cls |-> "ReadTimeout",
     msg |-> "The server did not send any data in the allotted amount of time."],
    [cls |-> "TooManyRedirects", msg |-> "Too many redirects."],
    [cls |-> "URLRequired", msg |-> "A valid URL is required to make a request."],
    [cls |-> "HTTPError", msg |-> "An HTTP error occurred."],
    [cls |-> "ConnectionError", msg |-> "A Connection error occurred."],
    [cls |-> "RequestException",
     msg |-> "There was an ambiguous exception that occurred while handling your request."] >>

\* the except clauses of process_response, in source order
ExceptClauses == <<
    [cls |-> "ConnectTimeout",
     msg |-> "The request timed out while trying to connect to the remote server."],
    [cls |-> "ReadTimeout",
     msg |-> "The server did not send any data in the allotted amount of time."],
    [cls |-> "Timeout", msg |-> "The request timed out."],
    [cls |-> "TooManyRedirects", msg |-> "Too many redirects."],
    [cls |-> "URLRequired", msg |-> "A valid URL is required to make a request."],
    [cls |-> "HTTPError", msg |-> "An HTTP error occurred."],
    [cls |-> "ConnectionError", msg |-> "A Connection error occurred."],
    [cls |-> "RequestException",
     msg |-> "There was an ambiguous exception that occurred while handling your request."] >>

Matching(exc) == {i \in 1..Len(ExceptClauses) : IsSubclass(exc, ExceptClauses[i].cls)}
FirstMatching(exc) == CHOOSE i \in Matching(exc) : \A j \in Matching(exc) : i <= j

Response(status_code, reason, url, data, error) ==
    [status_code |-> status_code, reason |-> reason, url |-> url,
     data |-> data, error |-> error]
NoUrl == [host |-> <<>>, path |-> <<>>]          \* url: str | None = ''
EnvOf(e) == [kind |-> "return", env |-> e]

\* the try body stopped with exception exc after result reached `partial`
Except(partial, exc) ==
    IF Matching(exc) = {} THEN Raised(exc)
    ELSE EnvOf([partial EXCEPT
                  !.error = Str(<<Lit(ExceptClauses[FirstMatching(exc)].msg)>>)])

\* Response.process_response(request, **kwargs) -> Envelope, or the
\* exception no except clause catches
process_response(request, outcome) ==
    IF outcome.t = "raise" THEN Except(Response(0, "", NoUrl, None, None), outcome.exc)
    ELSE LET body == JsonLoads(outcome.content)
             filled == Response(outcome.status_code, outcome.reason, request.url,
                                None, None)
         IN  IF outcome.content = <<>> THEN EnvOf(filled)
             ELSE IF body.ok THEN EnvOf([filled EXCEPT !.data = body.val])
             ELSE Except(filled, outcome.json_exc)

\* what the transport (requests.get/post/put/delete) can do with a request
TransportExceptions == {"ConnectTimeout", "ReadTimeout", "Timeout",
                        "TooManyRedirects", "URLRequired", "HTTPError",
                        "ConnectionError", "SSLError", "InvalidURL",
                        "RequestException"}
Statuses == {200, 201, 404, 500}
Reason(status) == CASE status = 200 -> "OK"
                    [] status = 201 -> "Created"
                    [] status = 404 -> "Not Found"
                    [] OTHER -> "Server Error"
CountText == <<"{", "\"", "c", "o", "u", "n", "t", "\"", ":", "1", "}">>
EmptyObjectText == <<"{", "}">>
HtmlText == <<"<", "h", "t", "m", "l", ">">>      \* a body that is not JSON
Bodies == {<<>>, EmptyObjectText, CountText, HtmlText}
\* the class response.json() raises for an undecodable body:
\* requests >= 2.27 raises requests.JSONDecodeError (a RequestException),
\* older releases a plain ValueError subclass; requests is installed unpinned
JsonExceptions == {"JSONDecodeError", "ValueError"}

Outcomes ==
    {[t |-> "raise", exc |-> e] : e \in TransportExceptions}
    \cup {[t |-> "response", status_code |-> c, reason |-> Reason(c),
           content |-> b, json_exc |-> "JSONDecodeError"]
            : c \in Statuses, b \in Bodies}
    \cup {[t |-> "response", status_code |-> c, reason |-> Reason(c),
           content |-> HtmlText, json_exc |-> "ValueError"] : c \in Statuses}

-----------------------------------------------------------------------------
(* Delay models: models.py *)

PyInt(n) == [t |-> "int", n |-> n]
PyFloat(n) == [t |-> "float", n |-> n]
IsInt(v) == v.t = "int"                          \* isinstance(v, int)

\* mutant: the sign test of FixedDelay.__post_init__ is dropped
FixedDelay_unsigned(fixedDelay) ==
    IF ~IsInt(fixedDelay) THEN Raised("TypeError")
    ELSE Returned([fixedDelay |-> fixedDelay], None)

\* FixedDelay(fixedDelay): the instance (as to_dict() renders it) or the
\* exception __post_init__ raises
FixedDelay(fixedDelay) ==
    IF ~IsInt(fixedDelay) THEN Raised("TypeError")
    ELSE IF fixedDelay.n < 0 THEN Raised("ValueError")
    ELSE Returned([fixedDelay |-> fixedDelay], None)

Uniform(lower, upper) ==
    IF ~IsInt(lower) \/ ~IsInt(upper) THEN Raised("TypeError")
    ELSE IF lower.n < 0 \/ upper.n < 0 THEN Raised("ValueError")
    ELSE IF lower.n > upper.n THEN Raised("ValueError")
    ELSE Returned([lower |-> lower, upper |-> upper, type |-> "uniform"], None)

LogNormal(median, sigma) ==
    IF median.n < 0 \/ sigma.n < 0 THEN Raised("ValueError")
    ELSE Returned([median |-> median, sigma |-> sigma, type |-> "lognormal"], None)

-----------------------------------------------------------------------------
(* Domain Clients: api.py (one HTTP request per method) and handlers.py    *)
(* (the reduction of the Envelope to a Domain Result)                      *)

\* ApiBase.base_url() + path
Url(settings, path) == [host |-> settings.host.s, path |-> <<"/__admin">> \o path]

Request(method, url, json, params, timeout) ==
    [method |-> method, url |-> url, json |-> json, params |-> params,
     timeout |-> timeout]

\* the api.py method behind each handlers.py operation: verb, path, and for
\* the handler the accepted status codes of its give_response call
Api == [
  service_update_settings |-> [verb |-> "POST", path |-> <<"/settings">>, codes |-> <<200>>],
  service_reset |-> [verb |-> "POST", path |-> <<"/reset">>, codes |-> <<200>>],
  service_shutdown |-> [verb |-> "POST", path |-> <<"/shutdown">>, codes |-> <<200>>],
  mappings_get |-> [verb |-> "GET", path |-> <<"/mappings">>, codes |-> <<200>>],
  mappings_create |-> [verb |-> "POST", path |-> <<"/mappings">>, codes |-> <<201>>],
  mappings_delete |-> [verb |-> "DELETE", path |-> <<"/mappings">>, codes |-> <<200>>],
  mappings_reset |-> [verb |-> "POST", path |-> <<"/mappings/reset">>, codes |-> <<200>>],
  mappings_persist |-> [verb |-> "POST", path |-> <<"/mappings/save">>, codes |-> <<200>>],
  mappings_find_by_metadata |->
      [verb |-> "POST", path |-> <<"/mappings/find-by-metadata">>, codes |-> <<200>>],
  mappings_delete_by_metadata |->
      [verb |-> "POST", path |-> <<"/mappings/remove-by-metadata">>, codes |-> <<200>>],
  mappings_get_by_id |-> [verb |-> "GET", path |-> <<"/mappings/">>, codes |-> <<200>>],
  mappings_update_by_id |-> [verb |-> "PUT", path |-> <<"/mappings/">>, codes |-> <<200>>],
  mappings_delete_by_id |-> [verb |-> "DELETE", path |-> <<"/mappings/">>, codes |-> <<200>>],
  journal_get_by_id |-> [verb |-> "GET", path |-> <<"/requests/">>, codes |-> <<200>>],
  journal_delete_by_id |-> [verb |-> "DELETE", path |-> <<"/requests/">>, codes |-> <<200>>],
  journal_get_unmatched |->
      [verb |-> "GET", path |-> <<"/requests/unmatched">>, codes |-> <<200>>],
  journal_get_unmatched_near_misses |->
      [verb |-> "GET", path |-> <<"/requests/unmatched/near-misses">>, codes |-> <<200>>],
  journal_get |-> [verb |-> "GET", path |-> <<"/requests">>, codes |-> <<200>>],
  journal_delete |-> [verb |-> "DELETE", path |-> <<"/requests">>, codes |-> <<200>>],
  journal_reset |-> [verb |-> "POST", path |-> <<"/requests/reset">>, codes |-> <<200>>],
  journal_count_by_criteria |->
      [verb |-> "POST", path |-> <<"/requests/count">>, codes |-> <<200>>],
  journal_delete_by_criteria |->
      [verb |-> "POST", path |-> <<"/requests/remove">>, codes |-> <<200>>],
  journal_delete_by_metadata |->
      [verb |-> "POST", path |-> <<"/requests/remove-by-metadata">>, codes |-> <<200>>],
  journal_find_by_criteria |->
      [verb |-> "POST", path |-> <<"/requests/find">>, codes |-> <<200>>],
  journal_get_near_misses_by_request |->
      [verb |-> "POST", path |-> <<"/near-misses/request">>, codes |-> <<200>>],
  journal_get_near_misses_by_pattern |->
      [verb |-> "POST", path |-> <<"/near-misses/request-pattern">>, codes |-> <<200>>],
  recordings_start |-> [verb |-> "POST", path |-> <<"/recordings/start">>, codes |-> <<200>>],
  recordings_stop |-> [verb |-> "POST", path |-> <<"/recordings/stop">>, codes |-> <<200>>],
  recordings_status |-> [verb |-> "GET", path |-> <<"/recordings/status">>, codes |-> <<200>>],
  recordings_snapshot |->
      [verb |-> "POST", path |-> <<"/recordings/snapshot">>, codes |-> <<200>>],
  scenarios_get |-> [verb |-> "GET", path |-> <<"/scenarios">>, codes |-> <<200>>],
  scenarios_reset |-> [verb |-> "POST", path |-> <<"/scenarios/reset">>, codes |-> <<200>>] ]

\* operations without a JSON-bearing argument or an ID, reduced by give_response
PlainOps == {"service_reset", "service_shutdown", "mappings_get", "mappings_delete",
             "mappings_reset", "mappings_persist", "journal_get_unmatched",
             "journal_get_unmatched_near_misses", "journal_get", "journal_delete",
             "journal_reset", "recordings_stop", "recordings_status",
             "scenarios_get", "scenarios_reset"}
\* operations that take one JSON-bearing argument, reduced by give_response
JsonOps == {"mappings_create", "mappings_find_by_metadata",
            "mappings_delete_by_metadata", "journal_count_by_criteria",
            "journal_delete_by_criteria", "journal_delete_by_metadata",
            "journal_find_by_criteria", "journal_get_near_misses_by_request",
            "journal_get_near_misses_by_pattern", "recordings_start",
            "recordings_snapshot"}
\* ID-keyed operations reduced by give_response / by the 404-aware reduction
DeleteByIdOps == {"mappings_delete_by_id", "journal_delete_by_id"}
GetByIdOps == {"mappings_get_by_id", "journal_get_by_id"}
\* list operations with query parameters (limit, offset / limit, since)
PagedOps == {"mappings_get", "journal_get"}

\* dict.get(key) on a decoded payload; "AttributeError" when data has no get
DictGet(data, key) ==
    IF data = None \/ data.t # "dict" THEN Raised("AttributeError")
    ELSE IF data.items # <<>> /\ data.items[1].k = key
    THEN Returned(data.items[1].v, None)
    ELSE Returned(None, None)
KeyCount == <<"c", "o", "u", "n", "t">>
KeyStatus == <<"s", "t", "a", "t", "u", "s">>

\* the statements api.Journal.count_by_criteria and api.Recordings.status run
\* on the Envelope after process_response
Unwrap(op, r) ==
    IF r.kind = "raise" \/ r.env.status_code # 200 THEN r
    ELSE IF op = "journal_count_by_criteria"
    THEN LET g == DictGet(r.env.data, KeyCount)
         IN  IF g.kind = "raise" THEN g
             ELSE IF g.data = None THEN Raised("TypeError")          \* int(None)
             ELSE IF g.data.t = "int" THEN EnvOf([r.env EXCEPT !.data = g.data])
             ELSE IF g.data.t # "jstr" THEN Raised("TypeError")   \* int([]), int({})
             ELSE IF g.data.s = <<>> \/ DigitsEnd(g.data.s, 0) # Len(g.data.s)
             THEN Raised("ValueError")                              \* int('x')
             ELSE EnvOf([r.env EXCEPT
                           !.data = JInt(IntOf(g.data.s, 0, Len(g.data.s)))])
    ELSE IF op = "recordings_status"
    THEN LET g == DictGet(r.env.data, KeyStatus)
         IN  IF g.kind = "raise" THEN g
             ELSE EnvOf([r.env EXCEPT !.data = g.data])
    ELSE r

\* repr of the success_codes tuple inside the f-string, e.g. (201,)
RECURSIVE TupleRest(_)
TupleRest(codes) == IF codes = <<>> THEN <<>>
                    ELSE <<Lit(", "), Num(Head(codes))>> \o TupleRest(Tail(codes))
TupleRepr(codes) ==
    IF codes = <<>> THEN <<Lit("()")>>
    ELSE IF Len(codes) = 1 THEN <<Lit("("), Num(codes[1]), Lit(",)")>>
    ELSE <<Lit("("), Num(codes[1])>> \o TupleRest(Tail(codes)) \o <<Lit(")")>>
InCodes(status, codes) == \E i \in 1..Len(codes) : codes[i] = status

\* mutant: the payload is withheld when the status is not accepted
give_response_no_data_on_error(response, success_codes) ==
    IF ~InCodes(response.status_code, success_codes)
    THEN Returned(None,
                  Str(<<Lit("Expected one of ")>> \o TupleRepr(success_codes)
                      \o <<Lit(" HTTP codes, got "), Num(response.status_code)>>))
    ELSE Returned(response.data, None)

\* handlers.give_response
give_response(response, success_codes) ==
    Returned(response.data,
             IF ~InCodes(response.status_code, success_codes)
             THEN Str(<<Lit("Expected one of ")>> \o TupleRepr(success_codes)
                      \o <<Lit(" HTTP codes, got "), Num(response.status_code)>>)
             ELSE None)

NotFoundText(op) == IF op = "journal_get_by_id"
                    THEN "No request with such id in Journal service "
                    ELSE "No mapping with such id on service "
UnexpectedStatus(response) ==
    Str(<<Lit("Unexpected response status code "), Num(response.status_code),
          Lit(" "), Lit(response.reason), Lit(" from "), Chars(response.url)>>)

\* mutant: the status is interpreted whether or not the transport failed
reduce_by_id_status_always(op, response) ==
    LET err1 == IF response.status_code = 404
                THEN Str(<<Lit(NotFoundText(op)), Chars(response.url)>>) ELSE None
        err2 == IF response.status_code # 200 THEN UnexpectedStatus(response) ELSE err1
    IN  Returned(response.data, err2)

\* the reduction written out in Mappings.get_by_id, Mappings.update_by_id and
\* Journal.get_by_id: two consecutive ifs, the second overwriting the first
reduce_by_id(op, response) ==
    LET err0 == None
        err1 == IF response.status_code = 404
                THEN Str(<<Lit(NotFoundText(op)), Chars(response.url)>>) ELSE err0
        err2 == IF response.status_code # 200 THEN UnexpectedStatus(response) ELSE err1
    IN  IF ~Truthy(response.error) THEN Returned(response.data, err2)
        ELSE Returned(response.data, response.error)

\* one api.py call made by a handler: the request issued, the Envelope
\* process_response returned (NoEnv when it raised) and the api method's result
Exchange(op, request, envelope) ==
    [sent |-> <<request>>,
     env |-> IF envelope.kind = "return" THEN envelope.env ELSE NoEnv,
     r |-> Unwrap(op, envelope)]
Invoke(op, settings, path, json, params, outcome) ==
    LET request == Request(Api[op].verb, Url(settings, path), json, params,
                           settings.api_request_timeout)
    IN  Exchange(op, request, process_response(request, outcome))
NotSent(result) == [sent |-> <<>>, env |-> NoEnv, ret |-> result]

\* return give_response(response=<api call c>, success_codes=(...)); an
\* exception the api call raised passes through the handler
return_give_response(c, success_codes) ==
    [sent |-> c.sent, env |-> c.env,
     ret |-> IF c.r.kind = "raise" THEN c.r ELSE give_response(c.r.env, success_codes)]
status_set_op(op, settings, path, json, params, outcome) ==
    return_give_response(Invoke(op, settings, path, json, params, outcome),
                         Api[op].codes)

\* mutant: the request is sent whatever the Input Resolver returned
json_op_unguarded(op, settings, d, outcome) ==
    IF d.kind = "raise" THEN NotSent(d)
    ELSE status_set_op(op, settings, Api[op].path, d.data, None, outcome)

\* the handlers with one JSON-bearing argument (Mappings.create, ...,
\* Recordings.snapshot), d being what load_json_data returned:
\* data, err = load_json_data(x); if not err: ...; return None, err
json_op(op, settings, d, outcome) ==
    IF d.kind = "raise" THEN NotSent(d)
    ELSE IF ~Truthy(d.err)
    THEN status_set_op(op, settings, Api[op].path, d.data, None, outcome)
    ELSE NotSent(Returned(None, d.err))

\* response = self.api.get_by_id(...) followed by the written-out reduction
return_reduce_by_id(op, c) ==
    [sent |-> c.sent, env |-> c.env,
     ret |-> IF c.r.kind = "raise" THEN c.r ELSE reduce_by_id(op, c.r.env)]

\* Mappings.get_by_id / Journal.get_by_id
get_by_id(op, settings, id, outcome) ==
    return_reduce_by_id(op, Invoke(op, settings, Api[op].path \o <<id>>, None, None,
                                   outcome))

\* Mappings.update_by_id, d being what load_json_data returned
update_by_id(settings, id, d, outcome) ==
    IF d.kind = "raise" THEN NotSent(d)
    ELSE IF ~Truthy(d.err)
    THEN return_reduce_by_id("mappings_update_by_id",
            Invoke("mappings_update_by_id", settings,
                   Api["mappings_update_by_id"].path \o <<id>>, d.data, None, outcome))
    ELSE NotSent(Returned(None, d.err))

\* Mappings.delete_by_id / Journal.delete_by_id
delete_by_id(op, settings, id, outcome) ==
    status_set_op(op, settings, Api[op].path \o <<id>>, None, None, outcome)

\* Service.set_delay_fixed / set_delay_uniform / set_delay_log_normal: the
\* model is constructed (and validated) as the argument of update_settings
set_delay(model, settings, outcome) ==
    IF model.kind = "raise" THEN NotSent(model)
    ELSE status_set_op("service_update_settings", settings,
                       Api["service_update_settings"].path, model.data, None, outcome)
set_delay_fixed(delay, settings, outcome) ==
    set_delay(FixedDelay(delay), settings, outcome)
set_delay_uniform(lower, upper, settings, outcome) ==
    set_delay(Uniform(lower, upper), settings, outcome)
set_delay_log_normal(median, sigma, settings, outcome) ==
    set_delay(LogNormal(median, sigma), settings, outcome)

-----------------------------------------------------------------------------
(* Inputs of the Input Resolver *)

ArgChars == {" ", "{", "}", "[", "]", "\"", "1", "a"}

RECURSIVE StringsUpTo(_)
StringsUpTo(n) ==
    IF n = 0 THEN {<<>>}
    ELSE LET shorter == StringsUpTo(n - 1)
         IN  shorter \cup {Append(s, c) : s \in {t \in shorter : Len(t) = n - 1},
                                           c \in ArgChars}

ObjectText == <<"{", "\"", "a", "\"", ":", "1", "}">>       \* {"a":1}
PaddedObjectText == <<" ", " ">> \o ObjectText \o <<" ">>    \*   {"a":1}
ListText == <<"[", "1", "]">>                                \* [1]
BrokenText == <<"{", "\"", "a", "\"", ":", "}">>             \* {"a":}

PathA == <<"a">>                     \* a file name that is not JSON
Path1 == <<"1">>                     \* a file name that is also a JSON number
Paths == {PathA, Path1}
PaddedPathA == <<" ">> \o PathA \o <<" ">>

\* literals longer than NameMax: {"aa...a":1}, ["aa...a"] and aa...a
Repeat(c, n) == [i \in 1..n |-> c]
LongObjectText == <<"{", "\"">> \o Repeat("a", NameMax) \o <<"\"", ":", "1", "}">>
LongListText == <<"[", "\"">> \o Repeat("a", NameMax) \o <<"\"", "]">>
LongBrokenText == Repeat("a", NameMax + 1)

Args == StringsUpTo(MaxArgLen) \cup {ObjectText, PaddedObjectText, BrokenText,
                                     PaddedPathA, LongObjectText, LongListText,
                                     LongBrokenText}

FileStates == {Missing} \cup {FileOf(c) : c \in {ObjectText, ListText, <<"1">>,
                                                  BrokenText}}
FsStates == [Paths -> FileStates]

-----------------------------------------------------------------------------
(* SpecResolver: the three resolver functions applied to drawn inputs *)

InitResolver ==
    /\ pc = "input"
    /\ arg \in Args
    /\ fs \in FsStates
    /\ file = Missing /\ current = Unset /\ autosave = TRUE /\ client = Unset
    /\ call = NoCall /\ sent = <<>> /\ env = NoEnv /\ ret = NoRet

LoadJsonString ==
    /\ pc = "input"
    /\ call' = [op |-> "load_json_string"]
    /\ ret' = load_json_string(arg)
    /\ pc' = "done"
    /\ UNCHANGED <<file, current, autosave, client, fs, arg, sent, env>>

LoadJsonFile ==
    /\ pc = "input"
    /\ call' = [op |-> "load_json_file"]
    /\ ret' = load_json_file(arg, fs)
    /\ pc' = "done"
    /\ UNCHANGED <<file, current, autosave, client, fs, arg, sent, env>>

LoadJsonData ==
    /\ pc = "input"
    /\ call' = [op |-> "load_json_data"]
    /\ ret' = load_json_data(arg, fs)
    /\ pc' = "done"
    /\ UNCHANGED <<file, current, autosave, client, fs, arg, sent, env>>

NextResolver == LoadJsonString \/ LoadJsonFile \/ LoadJsonData

SpecResolver == InitResolver /\ [][NextResolver]_vars

-----------------------------------------------------------------------------
(* Input Resolver claims *)

Done(op) == pc = "done" /\ call.op = op
EmptyDict == JDict(<<>>)
NoSuchFileError(path) == Str(<<Num(Errno.FileNotFoundError), Lit(" No such file "), Chars(path)>>)
IsNoSuchFileError(e) ==
    IF e = None THEN FALSE
    ELSE Len(e.parts) >= 2 /\ e.parts[2] = Lit(" No such file ")
\* the argument, trimmed, is the name of a file that does not exist
NamesMissingFile == Strip(arg) \in Paths /\ fs[Strip(arg)] = Missing

\* a name a file can have: not the empty path (the current directory) and
\* within the file system's limit
IsFilePath(path) == ~IsCurrentDir(path) /\ ~NameTooLong(path)

\* C8 as stated: load_json_data, given a path to a file that does not
\* exist, fails with the "no such file" error naming the path.
C8_Original ==
    (Done("load_json_data") /\ NamesMissingFile)
        => ret.err = NoSuchFileError(Strip(arg))

\* C8 amended: given a path to a file that does not exist, load_json_file
\* returns the empty object with the error "2 No such file <path>", naming
\* the path; load_json_data given a string that names no existing file never
\* reports "no such file" (it parses the string itself).
C8_NoSuchFile ==
    /\ (Done("load_json_file") /\ IsFilePath(arg) /\ ~is_file(arg, fs))
          => /\ ret = Returned(EmptyDict, NoSuchFileError(arg))
             /\ Names(ret.err, arg)
    /\ (Done("load_json_data") /\ ~is_file(Strip(arg), fs))
          => (ret.kind = "raise" \/ ~IsNoSuchFileError(ret.err))

C8_Witness ==
    \/ Done("load_json_file") /\ arg = PathA /\ fs[PathA] = Missing
                              /\ IsNoSuchFileError(ret.err)
    \/ Done("load_json_data") /\ arg = PaddedPathA /\ fs[PathA] = Missing
                              /\ ret.kind = "return"

\* C9: a string that, trimmed, names no existing file and is not valid JSON
\* makes load_json_data return the empty object and an error that begins with
\* 'JSON decode error. '.
C9_NotJson ==
    (Done("load_json_data") /\ ~is_file(Strip(arg), fs) /\ ~JsonLoads(arg).ok)
        => /\ ret.kind = "return"
           /\ ret.data = EmptyDict
           /\ StartsWith(ret.err, "JSON decode error. ")

\* the text the resolver parsed: the file's contents or the string itself
ParsedFromFile ==
    \/ Done("load_json_file") /\ is_file(arg, fs)
    \/ Done("load_json_data") /\ is_file(Strip(arg), fs)
ParsedFromString ==
    \/ Done("load_json_string")
    \/ Done("load_json_data") /\ ~is_file(Strip(arg), fs)
SourceFile == IF call.op = "load_json_data" THEN Strip(arg) ELSE arg
NotAnObject(text) == JsonLoads(text).ok /\ ~IsDict(JsonLoads(text).val)

\* C10: input that parses as JSON but is not an object yields the empty
\* object and 'Unsupported JSON format' (literal string) or 'Unsupported JSON
\* format in <file>' (file contents); the two messages differ and the file
\* one names the file.
C10_WrongShape ==
    /\ (ParsedFromString /\ NotAnObject(arg))
          => ret = Returned(EmptyDict, Str(<<Lit("Unsupported JSON format")>>))
    /\ (ParsedFromFile /\ NotAnObject(fs[SourceFile].content))
          => /\ ret.data = EmptyDict
             /\ ret.err = Str(<<Lit("Unsupported JSON format in "),
                                Chars(SourceFile)>>)
             /\ Names(ret.err, SourceFile)
             /\ ret.err # Str(<<Lit("Unsupported JSON format")>>)

\* the text load_json_data is to parse for its argument: the contents of the
\* file the trimmed argument names, or else the trimmed argument
ResolvedText == IF is_file(Strip(arg), fs) THEN fs[Strip(arg)].content
                ELSE Strip(arg)

\* C11: load_json_data trims its argument and returns the result of parsing
\* the file the trimmed string names, or else of parsing the trimmed string;
\* when that text is a JSON object the result is the object with no error.
C11_ResolutionRule ==
    Done("load_json_data")
        => /\ ret = IF is_file(Strip(arg), fs)
                    THEN load_json_file(Strip(arg), fs)
                    ELSE load_json_string(Strip(arg))
           /\ (JsonLoads(ResolvedText).ok /\ IsDict(JsonLoads(ResolvedText).val))
                 => ret = Returned(JsonLoads(ResolvedText).val, None)

-----------------------------------------------------------------------------
(* SpecReduce: give_response applied to the Envelopes process_response can *)
(* return and to accepted sets of zero, one and two codes                  *)

SomeRequest == Request("GET", [host |-> <<"h">>, path |-> <<"/__admin">>], None, None,
                       JInt(5))
Envelopes == {process_response(SomeRequest, o).env :
                 o \in {x \in Outcomes :
                          process_response(SomeRequest, x).kind = "return"}}
CodeSets == {<<200>>, <<201>>, <<200, 201>>, <<>>}

InitReduce ==
    /\ pc = "input"
    /\ env \in Envelopes
    /\ file = Missing /\ current = Unset /\ autosave = TRUE /\ client = Unset
    /\ fs = <<>> /\ arg = <<>> /\ call = NoCall /\ sent = <<>> /\ ret = NoRet

GiveResponse ==
    /\ pc = "input"
    /\ \E codes \in CodeSets :
          /\ call' = [op |-> "give_response", codes |-> codes]
          /\ ret' = give_response(env, codes)
    /\ pc' = "done"
    /\ UNCHANGED <<file, current, autosave, client, fs, arg, sent, env>>

NextReduce == GiveResponse

SpecReduce == InitReduce /\ [][NextReduce]_vars

\* the rendering of the accepted sets drawn, as Python prints the tuples
Rendered(codes) ==
    CASE codes = <<200>> -> <<Lit("("), Num(200), Lit(",)")>>
      [] codes = <<201>> -> <<Lit("("), Num(201), Lit(",)")>>
      [] codes = <<200, 201>> -> <<Lit("("), Num(200), Lit(", "), Num(201), Lit(")")>>
      [] codes = <<>> -> <<Lit("()")>>

\* C12: for an Envelope without transport error and an accepted set S,
\* give_response returns (Envelope.data, err); err is absent iff the status
\* code is in S and is otherwise exactly 'Expected one of <S as a tuple>
\* HTTP codes, got <status_code>'; the payload is the Envelope's data
\* whether or not err is set.
C12_StatusSetReduction ==
    (Done("give_response") /\ env.error = None)
        => /\ ret.kind = "return"
           /\ ret.data = env.data
           /\ (ret.err = None) <=> (\E i \in DOMAIN call.codes :
                                        call.codes[i] = env.status_code)
           /\ ret.err # None
                 => ret.err = Str(<<Lit("Expected one of ")>> \o Rendered(call.codes)
                                  \o <<Lit(" HTTP codes, got "),
                                       Num(env.status_code)>>)

\* status 200 with data against the accepted set (201,): the error of the
\* spec's example, and the payload passed through
C12_Witness ==
    /\ Done("give_response") /\ env.error = None
    /\ env.status_code = 200 /\ env.data # None /\ call.codes = <<201>>
    /\ ret = Returned(env.data,
                      Str(<<Lit("Expected one of "), Lit("("), Num(201), Lit(",)"),
                            Lit(" HTTP codes, got "), Num(200)>>))

-----------------------------------------------------------------------------
(* Spec: one run of the program (main.py): construct, App.load, then one   *)
(* Domain Client operation against the remote service                      *)

HostH == <<"h">>
FieldValues == [host |-> {JStr(<<>>), JStr(HostH)},
                api_request_timeout |-> {JInt(0), JInt(5)},
                shutdown_disabled |-> {JBool(TRUE), JBool(FALSE), JNull},
                extra |-> {JInt(1)}]
\* the JSON objects a settings file can hold: any subset of the three keys
\* (and possibly a key Settings does not have), each with one of its values
SettingsObjects ==
    UNION {{f \in [K -> UNION {FieldValues[k] : k \in K}] :
               \A k \in K : f[k] \in FieldValues[k]}
           : K \in SUBSET (SettingsKeys \cup {"extra"})}
SettingsFileStates ==
    {Missing, Directory, Unreadable, Locked, BadJson, JsonText(JArray)}
    \cup {JsonText(JObject(f)) : f \in SettingsObjects}

Ids == {"id1", "id2"}
Pages == {[limit |-> None, offset |-> None], [limit |-> PyInt(1), offset |-> PyInt(0)]}
ApiArgs == {ObjectText, PaddedObjectText, ListText, BrokenText, PathA, PaddedPathA,
            LongObjectText}
ApiFsStates == {[p \in Paths |-> IF p = PathA THEN st ELSE Missing]
                  : st \in {Missing, FileOf(ObjectText), FileOf(ListText)}}
DelayValues == {PyInt(n) : n \in -1..MaxDelay} \cup {PyFloat(n) : n \in -1..MaxDelay}

Call(op, id, argument, delay, outcome) ==
    [op |-> op, id |-> id, arg |-> argument, delay |-> delay, outcome |-> outcome]
NoOutcome == [t |-> "none"]

Init ==
    /\ pc = "start"
    /\ file \in SettingsFileStates
    /\ fs \in ApiFsStates
    /\ current = Unset /\ autosave = TRUE /\ client = Unset
    /\ arg = <<>> /\ call = NoCall /\ sent = <<>> /\ env = NoEnv /\ ret = NoRet

\* main(): err = app.load(); if err is not None: print(err); app.run()
\* App.load: Settings.load, and on success App.reset binds the record into
\* the five Domain Clients
AppLoad ==
    /\ pc = "start"
    /\ LET l == store_load(SettingsFile, file, current)
       IN  /\ current' = l.current
           /\ ret' = l.ret
           /\ client' = IF l.ret.kind = "return" /\ l.ret.err = None
                        THEN l.current ELSE client
           /\ pc' = IF l.ret.kind = "raise" THEN "done" ELSE "ready"
    /\ call' = Call("load", "", <<>>, <<>>, NoOutcome)
    /\ UNCHANGED <<file, autosave, fs, arg, sent, env>>

\* app.run() after a failed load: self.service, self.mappings, ... and the
\* store's current were never assigned, so the command stops (AttributeError;
\* for settings -gen the IndexError or ValueError of its argument list)
\* before it reaches any Domain Client operation
RunUnloaded ==
    /\ pc = "ready" /\ client = Unset
    /\ call' = Call("run", "", <<>>, <<>>, NoOutcome)
    /\ \E exc \in {"AttributeError", "IndexError", "ValueError"} : ret' = Raised(exc)
    /\ pc' = "done"
    /\ UNCHANGED <<file, current, autosave, client, fs, arg, sent, env>>

Finish(c) ==
    /\ sent' = c.sent /\ env' = c.env /\ ret' = c.ret
    /\ pc' = "done"
    /\ UNCHANGED <<file, current, autosave, client, fs>>

PlainOp ==
    /\ pc = "ready" /\ client # Unset
    /\ \E op \in PlainOps, o \in Outcomes :
       \E page \in IF op \in PagedOps THEN Pages ELSE {None} :
          /\ call' = Call(op, "", <<>>, <<>>, o)
          /\ arg' = arg
          /\ Finish(status_set_op(op, client, Api[op].path, None, page, o))

JsonOp ==
    /\ pc = "ready" /\ client # Unset
    /\ \E op \in JsonOps, a \in ApiArgs, o \in Outcomes :
          /\ call' = Call(op, "", a, <<>>, o)
          /\ arg' = a
          /\ Finish(json_op(op, client, load_json_data(a, fs), o))

GetById ==
    /\ pc = "ready" /\ client # Unset
    /\ \E op \in GetByIdOps, id \in Ids, o \in Outcomes :
          /\ call' = Call(op, id, <<>>, <<>>, o)
          /\ arg' = arg
          /\ Finish(get_by_id(op, client, id, o))

UpdateById ==
    /\ pc = "ready" /\ client # Unset
    /\ \E id \in Ids, a \in ApiArgs, o \in Outcomes :
          /\ call' = Call("mappings_update_by_id", id, a, <<>>, o)
          /\ arg' = a
          /\ Finish(update_by_id(client, id, load_json_data(a, fs), o))

DeleteById ==
    /\ pc = "ready" /\ client # Unset
    /\ \E op \in DeleteByIdOps, id \in Ids, o \in Outcomes :
          /\ call' = Call(op, id, <<>>, <<>>, o)
          /\ arg' = arg
          /\ Finish(delete_by_id(op, client, id, o))

SetDelayFixed ==
    /\ pc = "ready" /\ client # Unset
    /\ \E d \in DelayValues, o \in Outcomes :
          /\ call' = Call("set_delay_fixed", "", <<>>, <<d>>, o)
          /\ arg' = arg
          /\ Finish(set_delay_fixed(d, client, o))

SetDelayUniform ==
    /\ pc = "ready" /\ client # Unset
    /\ \E l \in DelayValues, u \in DelayValues, o \in Outcomes :
          /\ call' = Call("set_delay_uniform", "", <<>>, <<l, u>>, o)
          /\ arg' = arg
          /\ Finish(set_delay_uniform(l, u, client, o))

SetDelayLogNormal ==
    /\ pc = "ready" /\ client # Unset
    /\ \E m \in DelayValues, sg \in DelayValues, o \in Outcomes :
          /\ call' = Call("set_delay_log_normal", "", <<>>, <<m, sg>>, o)
          /\ arg' = arg
          /\ Finish(set_delay_log_normal(m, sg, client, o))

Next == \/ AppLoad \/ RunUnloaded \/ PlainOp \/ JsonOp \/ GetById \/ UpdateById
        \/ DeleteById \/ SetDelayFixed \/ SetDelayUniform \/ SetDelayLogNormal

Spec == Init /\ [][Next]_vars

-----------------------------------------------------------------------------
(* SpecSettings: a Settings Store (handlers.Settings) whose methods are    *)
(* called in any order on one settings file                                *)

HostK == <<"k">>
GenHosts == {JStr(<<>>), JStr(HostH), JStr(HostK)}
GenTimeouts == {JInt(0), JInt(5)}
GenFlags == {JBool(TRUE), JBool(FALSE)}
\* settings objects with all three keys
FullObjects == {f \in SettingsObjects : DOMAIN f = SettingsKeys}
StoreFileStates ==
    {Missing, Directory, Unreadable, Locked, BadJson, JsonText(JArray)}
    \cup {JsonText(JObject(f)) : f \in FullObjects}
    \cup {ReadOnly(JObject(f)) : f \in FullObjects}

InitSettings ==
    /\ pc = "idle"
    /\ file \in StoreFileStates
    /\ current = Unset /\ autosave = TRUE /\ client = Unset
    /\ fs = <<>> /\ arg = <<>> /\ call = NoCall /\ sent = <<>> /\ env = NoEnv
    /\ ret = NoRet

StoreFrame == UNCHANGED <<pc, client, fs, arg, sent, env>>

\* settings.autosave = True / False, as the callers of the store assign it
SetAutosave ==
    /\ pc = "idle"
    /\ autosave' = ~autosave
    /\ call' = [op |-> "set_autosave"]
    /\ ret' = NoRet
    /\ UNCHANGED <<file, current>> /\ StoreFrame

StoreLoad ==
    /\ pc = "idle"
    /\ LET l == store_load(SettingsFile, file, current)
       IN  current' = l.current /\ ret' = l.ret
    /\ call' = [op |-> "load"]
    /\ UNCHANGED <<file, autosave>> /\ StoreFrame

StoreSave ==
    /\ pc = "idle"
    /\ LET s == store_save(SettingsFile, file, current)
       IN  file' = s.file /\ ret' = s.ret
    /\ call' = [op |-> "save"]
    /\ UNCHANGED <<current, autosave>> /\ StoreFrame

Mutated(m) ==
    /\ ret' = m.ret /\ file' = m.file /\ current' = m.current
    /\ UNCHANGED autosave /\ StoreFrame

Generate ==
    /\ pc = "idle"
    /\ \E h \in GenHosts, t \in GenTimeouts, d \in GenFlags :
          /\ call' = [op |-> "generate", new |-> Settings(h, t, d)]
          /\ Mutated(store_generate(SettingsFile, file, current, autosave, h, t, d))

ChangeHost ==
    /\ pc = "idle"
    /\ \E h \in GenHosts :
          /\ call' = [op |-> "change_host", host |-> h]
          /\ Mutated(change_host(SettingsFile, file, current, autosave, h))

ChangeApiRequestTimeout ==
    /\ pc = "idle"
    /\ \E t \in GenTimeouts :
          /\ call' = [op |-> "change_api_request_timeout", timeout |-> t]
          /\ Mutated(change_api_request_timeout(SettingsFile, file, current,
                                                autosave, t))

EnableShutdown ==
    /\ pc = "idle"
    /\ call' = [op |-> "enable_shutdown"]
    /\ Mutated(enable_shutdown(SettingsFile, file, current, autosave))

DisableShutdown ==
    /\ pc = "idle"
    /\ call' = [op |-> "disable_shutdown"]
    /\ Mutated(disable_shutdown(SettingsFile, file, current, autosave))

NextSettings ==
    \/ SetAutosave \/ StoreLoad \/ StoreSave \/ Generate \/ ChangeHost
    \/ ChangeApiRequestTimeout \/ EnableShutdown \/ DisableShutdown

SpecSettings == InitSettings /\ [][NextSettings]_vars

-----------------------------------------------------------------------------
(* SpecBatch: the Batch Iterator (cli.iterate_request) over a list of IDs, *)
(* one loop iteration per step                                             *)

MaxIds == 3

\* json.dumps(data, indent=4)
Pretty(data) == [pretty |-> data]

\* mutant: the payload of an ID is only kept when the ID did not fail
iterate_body_data_unless_err(acc, request_id, r) ==
    [result_data |-> IF r.data # None /\ r.err = None
                     THEN acc.result_data \o <<Pretty(r.data), Lit("\n")>>
                     ELSE acc.result_data,
     result_err |-> IF r.err # None
                    THEN acc.result_err \o <<Lit(request_id), Lit(": ")>>
                            \o r.err.parts \o <<Lit("\n")>>
                    ELSE acc.result_err]

\* the loop body of iterate_request after data, err = function(request_id)
iterate_body(acc, request_id, r) ==
    [result_data |-> IF r.data # None
                     THEN acc.result_data \o <<Pretty(r.data), Lit("\n")>>
                     ELSE acc.result_data,
     result_err |-> IF r.err # None
                    THEN acc.result_err \o <<Lit(request_id), Lit(": ")>>
                            \o r.err.parts \o <<Lit("\n")>>
                    ELSE acc.result_err]

\* return result_data, None if not result_err else result_err
iterate_return(acc) ==
    Returned(acc.result_data,
             IF acc.result_err = <<>> THEN None ELSE Str(acc.result_err))

\* mutant: the loop stops after an ID whose call returned an error
has_next_until_error(args, log) ==
    /\ Len(log) < Len(args)
    /\ (IF log = <<>> THEN TRUE ELSE log[Len(log)].r.err = None)

\* for request_id in args: log holds the calls made so far
has_next(args, log) == Len(log) < Len(args)

\* the single-ID operations the command line hands to iterate_request
BatchFunctions == GetByIdOps \cup DeleteByIdOps
LoadedSettings == Settings(JStr(HostH), JInt(5), JBool(TRUE))
\* what the service does with the request of one ID
BatchOutcomes ==
    {[t |-> "raise", exc |-> "ConnectTimeout"],
     [t |-> "response", status_code |-> 200, reason |-> Reason(200),
      content |-> CountText, json_exc |-> "JSONDecodeError"],
     [t |-> "response", status_code |-> 404, reason |-> Reason(404),
      content |-> EmptyObjectText, json_exc |-> "JSONDecodeError"],
     [t |-> "response", status_code |-> 404, reason |-> Reason(404),
      content |-> <<>>, json_exc |-> "JSONDecodeError"],
     [t |-> "response", status_code |-> 200, reason |-> Reason(200),
      content |-> HtmlText, json_exc |-> "ValueError"]}
\* function(request_id)
single_id_op(function, id, outcome) ==
    IF function \in GetByIdOps
    THEN get_by_id(function, LoadedSettings, id, outcome).ret
    ELSE delete_by_id(function, LoadedSettings, id, outcome).ret

RECURSIVE IdLists(_)
IdLists(n) == IF n = 0 THEN {<<>>}
              ELSE IdLists(n - 1)
                   \cup {Append(l, id) : l \in {x \in IdLists(n - 1) : Len(x) = n - 1},
                                         id \in Ids}
NoAcc == [result_data |-> <<>>, result_err |-> <<>>]

InitBatch ==
    /\ pc = "loop"
    /\ \E function \in BatchFunctions, args \in IdLists(MaxIds) :
          call = [op |-> "iterate_request", function |-> function, args |-> args]
    /\ sent = <<>> /\ env = NoAcc /\ ret = NoRet
    /\ file = Missing /\ current = Unset /\ autosave = TRUE /\ client = Unset
    /\ fs = <<>> /\ arg = <<>>

BatchFrame == UNCHANGED <<file, current, autosave, client, fs, arg, call>>

\* one iteration: function(request_id) returns
IterateStep ==
    /\ pc = "loop" /\ has_next(call.args, sent)
    /\ \E request_id \in {call.args[Len(sent) + 1]}, o \in BatchOutcomes :
          \E r \in {single_id_op(call.function, request_id, o)} :
              /\ r.kind = "return"
              /\ sent' = Append(sent, [id |-> request_id, r |-> r])
              /\ env' = iterate_body(env, request_id, r)
    /\ UNCHANGED <<pc, ret>> /\ BatchFrame

\* one iteration: function(request_id) raises, and so does iterate_request
IterateRaise ==
    /\ pc = "loop" /\ has_next(call.args, sent)
    /\ \E request_id \in {call.args[Len(sent) + 1]}, o \in BatchOutcomes :
          \E r \in {single_id_op(call.function, request_id, o)} :
              /\ r.kind = "raise"
              /\ sent' = Append(sent, [id |-> request_id, r |-> r])
              /\ ret' = r
    /\ pc' = "done"
    /\ UNCHANGED env /\ BatchFrame

IterateReturn ==
    /\ pc = "loop" /\ ~has_next(call.args, sent)
    /\ ret' = iterate_return(env)
    /\ pc' = "done"
    /\ UNCHANGED <<sent, env>> /\ BatchFrame

NextBatch == IterateStep \/ IterateRaise \/ IterateReturn

SpecBatch == InitBatch /\ [][NextBatch]_vars

-----------------------------------------------------------------------------
(* Batch Iterator claims *)

BatchReturned == pc = "done" /\ call.op = "iterate_request" /\ ret.kind = "return"
Failed(entry) == entry.r.err # None

\* C17: iterate_request calls the operation once per ID, in input order, and
\* an error returned for one ID does not keep the later IDs from being
\* called: when it returns, every ID of the input has been called.
C17_OncePerIdInOrder ==
    call.op = "iterate_request"
        => /\ Len(sent) <= Len(call.args)
           /\ \A i \in 1..Len(sent) : sent[i].id = call.args[i]
           /\ BatchReturned => Len(sent) = Len(call.args)

\* three IDs, the first of which failed
C17_Witness ==
    /\ BatchReturned /\ Len(call.args) = 3 /\ Len(sent) = 3
    /\ Failed(sent[1]) /\ ~Failed(sent[3])

RECURSIVE PayloadsOfSucceeded(_)
PayloadsOfSucceeded(log) ==
    IF log = <<>> THEN <<>>
    ELSE (IF ~Failed(Head(log)) /\ Head(log).r.data # None
          THEN <<Pretty(Head(log).r.data), Lit("\n")>> ELSE <<>>)
         \o PayloadsOfSucceeded(Tail(log))
RECURSIVE PayloadsPresent(_)
PayloadsPresent(log) ==
    IF log = <<>> THEN <<>>
    ELSE (IF Head(log).r.data # None
          THEN <<Pretty(Head(log).r.data), Lit("\n")>> ELSE <<>>)
         \o PayloadsPresent(Tail(log))
RECURSIVE ErrorLines(_)
ErrorLines(log) ==
    IF log = <<>> THEN <<>>
    ELSE (IF Failed(Head(log))
          THEN <<Lit(Head(log).id), Lit(": ")>> \o Head(log).r.err.parts
                  \o <<Lit("\n")>>
          ELSE <<>>)
         \o ErrorLines(Tail(log))
\* the aggregate error: absent iff no ID failed, else one line per failing
\* ID, each prefixed with the ID
AggregateError ==
    /\ (ret.err = None) <=> (\A i \in 1..Len(sent) : ~Failed(sent[i]))
    /\ ret.err # None
          => /\ ret.err = Str(ErrorLines(sent))
             /\ Cardinality({i \in 1..Len(ret.err.parts) :
                                ret.err.parts[i] = Lit("\n")})
                  = Cardinality({i \in 1..Len(sent) : Failed(sent[i])})

\* C18 as stated: the aggregate output is the concatenation, in input order,
\* of the pretty-printed payloads of the IDs that did not fail; a failing ID
\* contributes no payload; the aggregate error is as above.
C18_Original ==
    BatchReturned => (ret.data = PayloadsOfSucceeded(sent) /\ AggregateError)

\* C18 amended: the aggregate output is the concatenation, in input order,
\* of the pretty-printed payloads of the IDs whose call returned a payload,
\* whether or not the call also returned an error; the aggregate error is
\* as above.
C18_Aggregation ==
    BatchReturned => (ret.data = PayloadsPresent(sent) /\ AggregateError)

\* a, b, c where b failed with a payload (a 404 answered with a JSON body)
C18_Witness ==
    /\ BatchReturned /\ Len(sent) = 3
    /\ ~Failed(sent[1]) /\ sent[1].r.data # None
    /\ Failed(sent[2]) /\ sent[2].r.data # None
    /\ ~Failed(sent[3]) /\ sent[3].r.data # None
    /\ Len(ret.data) = 6

-----------------------------------------------------------------------------
(* Settings Store claims *)

NoError == Returned(None, None)
MutationOps == {"generate", "change_host", "change_api_request_timeout",
                "enable_shutdown", "disable_shutdown"}
\* the store holds a record the mutation c can start from (generate needs none)
HasRecordFor(c, cur) == c.op = "generate" \/ cur # Unset
SameTimeout(cur, new) ==
    cur # Unset => new.api_request_timeout = cur.api_request_timeout
SameHost(cur, new) == cur # Unset => new.host = cur.host
SameFlag(cur, new) == cur # Unset => new.shutdown_disabled = cur.shutdown_disabled
\* new is the record cur becomes under the mutation c
Updated(c, cur, new) ==
    /\ new # Unset
    /\ CASE c.op = "generate" -> new = c.new
         [] c.op = "change_host" ->
              new.host = c.host /\ SameTimeout(cur, new) /\ SameFlag(cur, new)
         [] c.op = "change_api_request_timeout" ->
              new.api_request_timeout = c.timeout /\ SameHost(cur, new)
                 /\ SameFlag(cur, new)
         [] c.op = "enable_shutdown" ->
              new.shutdown_disabled = JBool(FALSE) /\ SameHost(cur, new)
                 /\ SameTimeout(cur, new)
         [] c.op = "disable_shutdown" ->
              new.shutdown_disabled = JBool(TRUE) /\ SameHost(cur, new)
                 /\ SameTimeout(cur, new)

C16_SaveWithoutRecord ==
    (call.op = "save" /\ current = Unset)
        => ret = Returned(None, Str(<<Lit("No current settings found to save")>>))

\* the settings file holds a JSON object with exactly the three fields
HoldsFullObject ==
    /\ file.t \in {"file", "rofile"} /\ file.json.t = "object"
    /\ DOMAIN file.json.f = SettingsKeys
\* C19: a load of a file that parses as JSON but yields an empty host, a zero
\* timeout or a null shutdown flag returns an error; after a successful load
\* the current record has a non-empty host, a non-zero timeout and a
\* shutdown flag that is not null.
C19_LoadValidity ==
    /\ (call.op = "load" /\ HoldsFullObject
          /\ (\/ file.json.f["host"] = JStr(<<>>)
              \/ file.json.f["api_request_timeout"] = JInt(0)
              \/ file.json.f["shutdown_disabled"] = JNull))
          => (ret.kind = "return" /\ ret.err # None)
    /\ (call.op = "load" /\ ret = NoError)
          => /\ current # Unset
             /\ current.host # JStr(<<>>)
             /\ current.api_request_timeout # JInt(0)
             /\ current.shutdown_disabled # JNull

\* a file with only the timeout unset is rejected and binds no record
C19_Witness ==
    /\ call.op = "load" /\ HoldsFullObject
    /\ file.json.f["host"] = JStr(HostH)
    /\ file.json.f["api_request_timeout"] = JInt(0)
    /\ file.json.f["shutdown_disabled"] = JBool(TRUE)
    /\ ret.kind = "return" /\ ret.err # None /\ current = Unset

-----------------------------------------------------------------------------
(* Domain Client claims *)

IsPost(request, path) ==
    request.method = "POST" /\ request.url.path = <<"/__admin">> \o path
StatusSetOps == PlainOps \cup JsonOps \cup DeleteByIdOps
                  \cup {"set_delay_fixed", "set_delay_uniform", "set_delay_log_normal"}
ByIdOps == GetByIdOps \cup DeleteByIdOps \cup {"mappings_update_by_id"}
\* the invoked operation got an Envelope back from the transport layer
Reduced(ops) == pc = "done" /\ call.op \in ops /\ env # NoEnv

\* C1: while the bound Settings Record has shutdown_disabled = true no POST
\* to /__admin/shutdown is issued; one is sent only with shutdown enabled.
C1_ShutdownOnlyWhenEnabled ==
    \A i \in 1..Len(sent) :
        IsPost(sent[i], <<"/shutdown">>) => client.shutdown_disabled = JBool(FALSE)

\* C2: an Envelope with a transport error (error set, status_code = 0) is
\* reduced by give_response to exactly that error string.
C2_TransportErrorVerbatim ==
    (Reduced(StatusSetOps) /\ env.error # None /\ env.status_code = 0
       /\ ret.kind = "return")
        => ret.err = env.error

NotFoundTexts == {"No mapping with such id on service ",
                  "No request with such id in Journal service "}
\* C3: on get/update/delete by id, a completed exchange with status 404
\* yields the resource's "No ... with such id ..." error naming the URL.
C3_NotFoundDistinguished ==
    (Reduced(ByIdOps) /\ env.error = None /\ env.status_code = 404
       /\ ret.kind = "return")
        => /\ \E text \in NotFoundTexts : StartsWith(ret.err, text)
           /\ Names(ret.err, env.url)

\* C4: every Envelope process_response returns has either error set and
\* status_code = 0, or error absent and status_code # 0.
C4_EnvelopeInvariant ==
    env # NoEnv =>
        \/ env.error # None /\ env.status_code = 0
        \/ env.error = None /\ env.status_code # 0

MissingFieldText(k) ==
    CASE k = "host" -> "Default host not set in "
      [] k = "api_request_timeout" -> "api_request_timeout not set in "
      [] OTHER -> "shutdown_disabled not set in "
\* the settings file is a JSON object that lacks at least one required field
LacksField ==
    /\ file \notin {Missing, Directory, Unreadable, Locked, BadJson}
    /\ file.json.t = "object"
    /\ DOMAIN file.json.f \subseteq SettingsKeys
    /\ DOMAIN file.json.f # SettingsKeys

\* C5: loading a settings file that is valid JSON but lacks a required field
\* returns an error naming a missing field and leaves the current record
\* as it was.
C5_MissingFieldIsError ==
    (call.op = "load" /\ LacksField)
        => /\ ret.kind = "return"
           /\ \E k \in SettingsKeys \ DOMAIN file.json.f :
                 StartsWith(ret.err, MissingFieldText(k))
           /\ current = Unset

JsonBearingOps == JsonOps \cup {"mappings_update_by_id"}
\* C6: when the Input Resolver returns an error for the JSON-bearing
\* argument, the operation issues no HTTP request and returns
\* (None, the resolver's error).
C6_InputErrorBeforeHttp ==
    (pc = "done" /\ call.op \in JsonBearingOps
       /\ load_json_data(call.arg, fs).kind = "return"
       /\ Truthy(load_json_data(call.arg, fs).err))
        => /\ sent = <<>>
           /\ env = NoEnv
           /\ ret = Returned(None, load_json_data(call.arg, fs).err)

C6_Witness ==
    /\ pc = "done" /\ call.op = "journal_count_by_criteria"
    /\ call.arg = PaddedPathA /\ fs[PathA] = FileOf(ListText)
    /\ sent = <<>> /\ Truthy(ret.err)

\* the delay setting of the call fails validation: fixed delay < 0; uniform
\* with a negative bound or lower > upper; log-normal with negative median
\* or sigma
FailsValidation ==
    \/ call.op = "set_delay_fixed" /\ call.delay[1].n < 0
    \/ call.op = "set_delay_uniform"
         /\ (call.delay[1].n < 0 \/ call.delay[2].n < 0
               \/ call.delay[1].n > call.delay[2].n)
    \/ call.op = "set_delay_log_normal"
         /\ (call.delay[1].n < 0 \/ call.delay[2].n < 0)

\* C7: a set-delay operation whose delay setting fails validation is rejected
\* (raises) before transmission: it issues no POST to /__admin/settings.
C7_DelayValidatedLocally ==
    (pc = "done" /\ FailsValidation)
        => /\ ret.kind = "raise" /\ ret.exc \in {"ValueError", "TypeError"}
           /\ \A i \in 1..Len(sent) : ~IsPost(sent[i], <<"/settings">>)
           /\ sent = <<>>

C7_Witness ==
    /\ pc = "done" /\ call.op = "set_delay_uniform"
    /\ call.delay = <<PyInt(1), PyInt(0)>>
    /\ ret = Raised("ValueError") /\ sent = <<>>

\* the message process_response is to store for each exception the
\* transport can raise
TransportMessage ==
    [ConnectTimeout |->
        "The request timed out while trying to connect to the remote server.",
     ReadTimeout |-> "The server did not send any data in the allotted amount of time.",
     Timeout |-> "The request timed out.",
     TooManyRedirects |-> "Too many redirects.",
     URLRequired |-> "A valid URL is required to make a request.",
     HTTPError |-> "An HTTP error occurred.",
     ConnectionError |-> "A Connection error occurred.",
     SSLError |-> "A Connection error occurred.",
     InvalidURL |->
        "There was an ambiguous exception that occurred while handling your request.",
     RequestException |->
        "There was an ambiguous exception that occurred while handling your request."]

\* C20: when the transport call raises, the Envelope carries the one message
\* of the most specific matching class (connect timeout, read timeout, other
\* timeout, too many redirects, missing URL, HTTP error, connection error,
\* else the 'ambiguous exception' message) and status_code stays 0.
C20_TransportClassification ==
    (pc = "done" /\ sent # <<>> /\ call.outcome.t = "raise")
        => /\ env # NoEnv
           /\ env.error = Str(<<Lit(TransportMessage[call.outcome.exc])>>)
           /\ env.status_code = 0
           /\ env.data = None

\* a connect timeout, which is also a Timeout and a ConnectionError
C20_Witness ==
    /\ pc = "done" /\ sent # <<>> /\ call.outcome.t = "raise"
    /\ call.outcome.exc = "ConnectTimeout"
    /\ env # NoEnv /\ env.status_code = 0
    /\ env.error = Str(<<Lit("The request timed out while trying to connect to the remote server.")>>)

-----------------------------------------------------------------------------
(* Command line: cli.py.  argparse hands each flag's values over as a list  *)
(* of strings (JList of character sequences), a store_true flag as a bool,  *)
(* and None for a list flag that was not given.  outs is what the service   *)
(* does with the first, second, ... request of the invocation.              *)

MaxCliArgs == 2     \* longest list of values drawn for a nargs='*' / '+' flag

\* int(text) for an optional minus sign and the digits of Digits
py_int(text) ==
    LET neg == text # <<>> /\ Head(text) = "-"
        body == IF neg THEN Tail(text) ELSE text
    IN  IF body = <<>> \/ DigitsEnd(body, 0) # Len(body) THEN Raised("ValueError")
        ELSE Returned(PyInt((IF neg THEN -1 ELSE 1) * IntOf(body, 0, Len(body))), None)

\* index of the first "." in text, or Len(text) + 1
RECURSIVE FindDot(_, _)
FindDot(text, i) == IF i > Len(text) THEN i
                    ELSE IF text[i] = "." THEN i ELSE FindDot(text, i + 1)

\* float(text) for an optional minus sign, digits and an optional fraction
\* of zeros (the value is then the integer part)
py_float(text) ==
    LET neg == text # <<>> /\ Head(text) = "-"
        body == IF neg THEN Tail(text) ELSE text
        dot == FindDot(body, 1)
        whole == SubSeq(body, 1, dot - 1)
        frac == SubSeq(body, dot + 1, Len(body))
    IN  IF \/ whole = <<>> /\ frac = <<>>
           \/ DigitsEnd(whole, 0) # Len(whole)
           \/ \E i \in 1..Len(frac) : frac[i] # "0"
        THEN Raised("ValueError")
        ELSE Returned(PyFloat((IF neg THEN -1 ELSE 1) * IntOf(whole, 0, Len(whole))),
                      None)

\* bool(x) of a parsed flag value: None, a bool or a list
PyTruth(v) == CASE v.t = "None" -> FALSE
                [] v.t = "bool" -> v.b
                [] v.t = "list" -> v.items # <<>>

\* the App a command runs on: the record bound into the Domain Clients and
\* the Settings Store
AppState(cl, state, cur, auto) ==
    [client |-> cl, file |-> state, current |-> cur, autosave |-> auto]

\* what a command leaves behind: the requests issued, the (data, err) it
\* returned or the exception it raised, the settings file and the store's
\* current record
CliResult(sent0, result, app) ==
    [sent |-> sent0, ret |-> result, file |-> app.file, current |-> app.current]
\* a Domain Client operation c called after the requests sent0
AfterCall(sent0, c, app) == CliResult(sent0 \o c.sent, c.ret, app)
Message(parts) == Returned(None, Str(parts))
\* return None, None
NothingToDo(app) == CliResult(<<>>, Returned(None, None), app)

\* try: return <call c> / except ValueError: return None, <parts>
except_ValueError(sent0, c, parts, app) ==
    CliResult(sent0 \o c.sent,
              IF c.ret = Raised("ValueError") THEN Message(parts) ELSE c.ret, app)

DelayFixedHelp ==
    <<Lit("Expected to get single integer value, 'service -h' for more info.")>>
DelayTypesHelp ==
    <<Lit("Unexpected argument types. Expected: INT -> fixed; INT INT -> uniform; INT FLOAT -> log normal 'service -h' for more info.")>>

\* the inner try of _service_delay, entered after the requests sent0
delay_log_normal(median, sigma, app, outs, sent0) ==
    IF median.kind = "raise" \/ sigma.kind = "raise"
    THEN CliResult(sent0, Message(DelayTypesHelp), app)
    ELSE except_ValueError(sent0,
            set_delay_log_normal(median.data, sigma.data, app.client,
                                 outs[Len(sent0) + 1]),
            DelayTypesHelp, app)

\* the outer try of _service_delay for two arguments: c is the uniform call,
\* and its ValueError leads into the inner try
delay_uniform_or_log_normal(c, args, app, outs) ==
    IF c.ret = Raised("ValueError")
    THEN delay_log_normal(py_int(args[1]), py_float(args[2]), app, outs, c.sent)
    ELSE AfterCall(<<>>, c, app)

\* Cli._service_delay
service_delay(args, app, outs) ==
    IF Len(args) = 1
    THEN IF py_int(args[1]).kind = "raise"
         THEN CliResult(<<>>, Message(DelayFixedHelp), app)
         ELSE except_ValueError(<<>>,
                 set_delay_fixed(py_int(args[1]).data, app.client, outs[1]),
                 DelayFixedHelp, app)
    ELSE IF Len(args) = 2
    THEN IF py_int(args[1]).kind = "raise" \/ py_int(args[2]).kind = "raise"
         THEN delay_log_normal(py_int(args[1]), py_float(args[2]), app, outs, <<>>)
         ELSE delay_uniform_or_log_normal(
                 set_delay_uniform(py_int(args[1]).data, py_int(args[2]).data,
                                   app.client, outs[1]),
                 args, app, outs)
    ELSE CliResult(<<>>,
                   Message(<<Lit("Unexpected number of arguments "), Num(Len(args)),
                             Lit(". Expected from 1 to 2")>>), app)

\* a Domain Client operation without arguments, as the first request
plain_op(op, params, app, outs) ==
    AfterCall(<<>>, status_set_op(op, app.client, Api[op].path, None, params, outs[1]),
              app)
\* a Domain Client operation with one JSON-bearing argument
json_arg_op(op, argument, app, outs, files) ==
    AfterCall(<<>>, json_op(op, app.client, load_json_data(argument, files), outs[1]),
              app)

\* the call a dispatcher settles on: which operation (or exception) and with
\* which arguments; perform makes the call
Plan(kind, op, args) == [kind |-> kind, op |-> op, args |-> args]
NothingToDoPlan == Plan("nothing", "", None)

\* Cli._process_service
process_service(ns) ==
    IF PyTruth(ns.delay) THEN Plan("delay", "service_delay", ns.delay.items)
    ELSE IF PyTruth(ns.reset) THEN Plan("plain", "service_reset", None)
    ELSE IF PyTruth(ns.stop) THEN Plan("plain", "service_shutdown", None)
    ELSE NothingToDoPlan

\* function(request_id) inside iterate_request, on the bound record
by_id_call(function, request_id, app, outcome) ==
    IF function \in GetByIdOps THEN get_by_id(function, app.client, request_id, outcome)
    ELSE delete_by_id(function, app.client, request_id, outcome)

RECURSIVE iterate_request(_, _, _, _, _, _, _)
\* one pass of the for loop of iterate_request: c is function(args[i])
iterate_next(c, function, args, app, outs, i, acc, sent0) ==
    IF c.ret.kind = "raise" THEN CliResult(sent0 \o c.sent, c.ret, app)
    ELSE iterate_request(function, args, app, outs, i + 1,
                         iterate_body(acc, args[i], c.ret), sent0 \o c.sent)
\* cli.iterate_request(function, args) from the i-th ID on, after the
\* requests sent0
iterate_request(function, args, app, outs, i, acc, sent0) ==
    IF i > Len(args) THEN CliResult(sent0, iterate_return(acc), app)
    ELSE iterate_next(by_id_call(function, args[i], app, outs[Len(sent0) + 1]),
                      function, args, app, outs, i, acc, sent0)

NoParams == [limit |-> None, offset |-> None]
\* try: return self.mappings.get(int, int) / except ValueError: iterate;
\* called is whether both int() succeeded, c is then the call of mappings.get
mappings_get_paged(called, c, args, app, outs) ==
    IF called /\ c.ret # Raised("ValueError") THEN AfterCall(<<>>, c, app)
    ELSE iterate_request("mappings_get_by_id", args, app, outs, 1, NoAcc,
                         IF called THEN c.sent ELSE <<>>)

\* Cli._mappings_get
mappings_get(args) ==
    IF Len(args) = 0 THEN Plan("plain", "mappings_get", NoParams)
    ELSE IF Len(args) = 2
    THEN IF py_int(args[1]).kind = "raise" \/ py_int(args[2]).kind = "raise"
         THEN Plan("iterate", "mappings_get_by_id", args)
         ELSE Plan("paged", "mappings_get", args)
    ELSE Plan("iterate", "mappings_get_by_id", args)

\* Cli._mappings_delete
mappings_delete(args) ==
    IF Len(args) = 0 THEN Plan("plain", "mappings_delete", None)
    ELSE Plan("iterate", "mappings_delete_by_id", args)

\* Cli._process_mappings
process_mappings(ns) ==
    IF ns.get # None THEN mappings_get(ns.get.items)
    ELSE IF PyTruth(ns.get_meta)
    THEN Plan("json", "mappings_find_by_metadata", ns.get_meta.items[1])
    ELSE IF PyTruth(ns.create) THEN Plan("json", "mappings_create", ns.create.items[1])
    ELSE IF ns.delete # None THEN mappings_delete(ns.delete.items)
    ELSE IF PyTruth(ns.delete_meta)
    THEN Plan("json", "mappings_delete_by_metadata", ns.delete_meta.items[1])
    ELSE IF PyTruth(ns.reset) THEN Plan("plain", "mappings_reset", None)
    ELSE IF PyTruth(ns.persist) THEN Plan("plain", "mappings_persist", None)
    ELSE IF PyTruth(ns.update) THEN Plan("update", "mappings_update_by_id", ns.update.items)
    ELSE NothingToDoPlan

\* Cli._journal_get: args is the list, which has no attribute get
journal_get(args) ==
    IF Len(args) = 0 THEN Plan("plain", "journal_get", [limit |-> None, since |-> None])
    ELSE Plan("raise", "AttributeError", None)

\* Cli._journal_delete
journal_delete(args) ==
    IF Len(args) = 0 THEN Plan("plain", "journal_delete", None)
    ELSE Plan("iterate", "journal_delete_by_id", args)

\* getattr on the argparse Namespace: an attribute no argument declares
HasAttr(ns, name) == name \in DOMAIN ns

\* Cli._process_journal
process_journal(ns) ==
    IF ns.get # None THEN journal_get(ns.get.items)
    ELSE IF PyTruth(ns.get_critaria)
    THEN Plan("json", "journal_find_by_criteria", ns.get_critaria.items[1])
    ELSE IF ns.delete # None THEN journal_delete(ns.delete.items)
    ELSE IF PyTruth(ns.delete_critaria)
    THEN Plan("json", "journal_delete_by_criteria", ns.delete_critaria.items[1])
    ELSE IF ~HasAttr(ns, "delete_metedata") THEN Plan("raise", "AttributeError", None)
    ELSE IF PyTruth(ns.delete_metedata)
    THEN Plan("json", "journal_delete_by_metadata", ns.delete_metadata.items[1])
    ELSE IF PyTruth(ns.unmatched) THEN Plan("plain", "journal_get_unmatched", None)
    ELSE IF PyTruth(ns.miss) THEN Plan("plain", "journal_get_unmatched_near_misses", None)
    ELSE IF PyTruth(ns.miss_request)
    THEN Plan("json", "journal_get_near_misses_by_request", ns.miss_request.items[1])
    ELSE IF PyTruth(ns.miss_pattern)
    THEN Plan("json", "journal_get_near_misses_by_pattern", ns.miss_pattern.items[1])
    ELSE IF PyTruth(ns.reset) THEN Plan("plain", "journal_reset", None)
    ELSE IF PyTruth(ns.count)
    THEN Plan("json", "journal_count_by_criteria", ns.count.items[1])
    ELSE NothingToDoPlan

\* Cli._process_recordings
process_recordings(ns) ==
    IF PyTruth(ns.start) THEN Plan("json", "recordings_start", ns.start.items[1])
    ELSE IF PyTruth(ns.stop) THEN Plan("plain", "recordings_stop", None)
    ELSE IF PyTruth(ns.status) THEN Plan("plain", "recordings_status", None)
    ELSE IF PyTruth(ns.snapshot)
    THEN Plan("json", "recordings_snapshot", ns.snapshot.items[1])
    ELSE NothingToDoPlan

\* Cli._process_scenarios
process_scenarios(ns) ==
    IF PyTruth(ns.get) THEN Plan("plain", "scenarios_get", None)
    ELSE IF PyTruth(ns.reset) THEN Plan("plain", "scenarios_reset", None)
    ELSE NothingToDoPlan

\* return None, self.settings.<mutation>(...): m is what the store returns
settings_result(m) ==
    [sent |-> <<>>, ret |-> m.ret, file |-> m.file, current |-> m.current]

\* Cli._process_settings; -gen evaluates args.gen[0], int(args.gen[1]) and
\* then args.gen[3] on a list of three
process_settings(ns) ==
    IF PyTruth(ns.gen)
    THEN Plan("raise", IF py_int(ns.gen.items[2]).kind = "raise" THEN "ValueError"
                       ELSE "IndexError", None)
    ELSE IF PyTruth(ns.host) THEN Plan("settings", "change_host", JStr(ns.host.items[1]))
    ELSE IF PyTruth(ns.timeout)
    THEN Plan("settings", "change_api_request_timeout", ns.timeout.items[1])
    ELSE IF PyTruth(ns.shutdown_enable) THEN Plan("settings", "enable_shutdown", None)
    ELSE IF PyTruth(ns.shutdown_disable) THEN Plan("settings", "disable_shutdown", None)
    ELSE NothingToDoPlan

\* the arguments of each subparser: dest -> TRUE for action='store_true'
Arguments == [
  service |-> [delay |-> FALSE, reset |-> TRUE, stop |-> TRUE],
  mapping |-> [get |-> FALSE, get_meta |-> FALSE, create |-> FALSE, delete |-> FALSE,
               delete_meta |-> FALSE, reset |-> TRUE, persist |-> TRUE,
               update |-> FALSE],
  journal |-> [get |-> FALSE, get_critaria |-> FALSE, delete |-> FALSE,
               delete_critaria |-> FALSE, delete_metadata |-> FALSE,
               unmatched |-> TRUE, miss |-> TRUE, miss_request |-> FALSE,
               miss_pattern |-> FALSE, reset |-> TRUE, count |-> FALSE],
  record |-> [start |-> FALSE, stop |-> TRUE, status |-> TRUE, snapshot |-> FALSE],
  scenario |-> [get |-> TRUE, reset |-> TRUE],
  settings |-> [gen |-> FALSE, host |-> FALSE, timeout |-> FALSE,
                shutdown_enable |-> TRUE, shutdown_disable |-> TRUE] ]

\* ArgumentParser.parse_args for a command line naming one flag of the
\* mutually exclusive group: the Namespace of the subparser's dests
parse_args(command, flag, values) ==
    [d \in DOMAIN Arguments[command] |->
        IF d = flag THEN values
        ELSE IF Arguments[command][d] THEN JBool(FALSE) ELSE None]

\* the call the dispatcher settled on, made on the App
perform(plan, app, outs, files) ==
    CASE plan.kind = "plain" -> plain_op(plan.op, plan.args, app, outs)
      [] plan.kind = "json" -> json_arg_op(plan.op, plan.args, app, outs, files)
      [] plan.kind = "update" ->
            AfterCall(<<>>,
                update_by_id(app.client, plan.args[1],
                             load_json_data(plan.args[2], files), outs[1]), app)
      [] plan.kind = "delay" -> service_delay(plan.args, app, outs)
      [] plan.kind = "paged" ->
            mappings_get_paged(TRUE,
                status_set_op("mappings_get", app.client, Api["mappings_get"].path,
                              None,
                              [limit |-> py_int(plan.args[1]).data,
                               offset |-> py_int(plan.args[2]).data], outs[1]),
                plan.args, app, outs)
      [] plan.kind = "iterate" /\ plan.op = "mappings_get_by_id" ->
            mappings_get_paged(FALSE, NoRet, plan.args, app, outs)
      [] plan.kind = "iterate" /\ plan.op # "mappings_get_by_id" ->
            iterate_request(plan.op, plan.args, app, outs, 1, NoAcc, <<>>)
      [] plan.kind = "raise" -> CliResult(<<>>, Raised(plan.op), app)
      [] plan.kind = "nothing" -> NothingToDo(app)
      [] plan.kind = "settings" /\ plan.op = "change_host" ->
            settings_result(change_host(SettingsFile, app.file, app.current,
                                        app.autosave, plan.args))
      [] plan.kind = "settings" /\ plan.op = "change_api_request_timeout" ->
            settings_result(change_api_request_timeout(SettingsFile, app.file,
                                app.current, app.autosave, plan.args))
      [] plan.kind = "settings" /\ plan.op = "enable_shutdown" ->
            settings_result(enable_shutdown(SettingsFile, app.file, app.current,
                                            app.autosave))
      [] plan.kind = "settings" /\ plan.op = "disable_shutdown" ->
            settings_result(disable_shutdown(SettingsFile, app.file, app.current,
                                             app.autosave))

\* Cli.run: match args.command
run(command, ns, app, outs, files) ==
    perform(CASE command = "service" -> process_service(ns)
              [] command = "mapping" -> process_mappings(ns)
              [] command = "journal" -> process_journal(ns)
              [] command = "record" -> process_recordings(ns)
              [] command = "scenario" -> process_scenarios(ns)
              [] command = "settings" -> process_settings(ns),
            app, outs, files)

-----------------------------------------------------------------------------
(* SpecCli: one command (Cli.run) on an App whose load succeeded *)

\* values typed after a flag: integers, a negative one, a float, a name
CliTokens == {<<"1">>, <<"0">>, <<"-", "1">>, <<"1", ".", "0">>, <<"x">>}
RECURSIVE TokenLists(_)
TokenLists(n) ==
    IF n = 0 THEN {<<>>}
    ELSE TokenLists(n - 1)
         \cup {Append(l, t) : l \in {x \in TokenLists(n - 1) : Len(x) = n - 1},
                              t \in CliTokens}
CliJsonArgs == {ObjectText, BrokenText}
\* per flag, the lists argparse can produce for it
FlagValues(command, flag) ==
    IF Arguments[command][flag] THEN {JBool(TRUE)}
    ELSE IF command = "service"
    THEN {JList(l) : l \in (TokenLists(MaxCliArgs) \ {<<>>})
                             \cup {<<<<"1">>, <<"1">>, <<"1">>>>}}          \* nargs='+'
    ELSE IF flag \in {"get", "delete"}
    THEN {JList(l) : l \in TokenLists(MaxCliArgs)}                          \* nargs='*'
    ELSE IF flag = "update"
    THEN {JList(<<id, a>>) : id \in {<<"x">>}, a \in CliJsonArgs}           \* nargs=2
    ELSE IF flag = "gen"
    THEN {JList(<<HostK, t, <<"1">>>>) : t \in {<<"1">>, <<"x">>}}          \* nargs=3
    ELSE IF flag = "host" THEN {JList(<<HostK>>)}
    ELSE IF flag = "timeout" THEN {JList(<<PyInt(n)>>) : n \in {0, 1}}      \* type=int
    ELSE {JList(<<a>>) : a \in CliJsonArgs}                                 \* nargs=1
FlagLines(c) ==
    UNION {{[command |-> c, flag |-> f, values |-> v] : v \in FlagValues(c, f)}
           : f \in DOMAIN Arguments[c]}
CommandLines == UNION {FlagLines(c) : c \in DOMAIN Arguments}
\* what the service does with one request
CliOutcomes ==
    {[t |-> "response", status_code |-> 200, reason |-> Reason(200),
      content |-> CountText, json_exc |-> "JSONDecodeError"],
     [t |-> "response", status_code |-> 404, reason |-> Reason(404),
      content |-> EmptyObjectText, json_exc |-> "JSONDecodeError"],
     [t |-> "response", status_code |-> 200, reason |-> Reason(200),
      content |-> HtmlText, json_exc |-> "ValueError"]}
NoFiles == [p \in Paths |-> Missing]

InitCli ==
    /\ pc = "ready"
    /\ file = JsonText(json_dumps_asdict(LoadedSettings))
    /\ current = LoadedSettings /\ client = LoadedSettings /\ autosave = TRUE
    /\ fs = NoFiles /\ arg = <<>> /\ call = NoCall /\ sent = <<>> /\ env = NoEnv
    /\ ret = NoRet

\* app.run(): parse_args, then the subcommand's dispatcher
CliRun ==
    /\ pc = "ready"
    /\ \E cl \in CommandLines, outs \in [1..(MaxCliArgs + 1) -> CliOutcomes] :
          /\ call' = [op |-> "run", command |-> cl.command, flag |-> cl.flag,
                      values |-> cl.values, outs |-> outs]
          /\ \E r \in {run(cl.command, parse_args(cl.command, cl.flag, cl.values),
                           AppState(client, file, current, autosave), outs, fs)} :
                /\ sent' = r.sent /\ ret' = r.ret
                /\ file' = r.file /\ current' = r.current
    /\ pc' = "done"
    /\ UNCHANGED <<autosave, client, fs, arg, env>>

NextCli == CliRun

SpecCli == InitCli /\ [][NextCli]_vars

-----------------------------------------------------------------------------
(* Process claims *)

\* the load of the settings file at start-up returns an error
LoadFails ==
    LET r == settings_load(SettingsFile, file)
    IN  r.kind = "return" /\ r.err # None

\* C21: once App.load has returned an error, the store's current record is
\* unset, no Domain Client is bound and the process issues no HTTP request.
C21_NothingAfterFailedLoad ==
    (pc # "start" /\ LoadFails)
        => /\ current = Unset
           /\ client = Unset
           /\ sent = <<>>
           /\ pc = "done" => ret.kind = "raise"

\* the command run after a load that found a directory in place of the file
C21_Witness ==
    /\ pc = "done" /\ call.op = "run" /\ LoadFails /\ file = Directory
    /\ current = Unset /\ sent = <<>> /\ ret = Raised("AttributeError")

-----------------------------------------------------------------------------
(* Settings Record claims *)

\* C27: whenever the Settings Store holds a current record, after any
\* sequence of load, generate and change operations, its host is a non-empty
\* string and its api_request_timeout a positive integer.
C27_RecordValidity ==
    current # Unset
        => /\ current.host.t = "jstr" /\ current.host.s # <<>>
           /\ current.api_request_timeout.t = "int"
           /\ current.api_request_timeout.n > 0

\* the record a settings file holding a full object decodes to
RecordIn(state) ==
    Settings(state.json.f["host"], state.json.f["api_request_timeout"],
             state.json.f["shutdown_disabled"])
UnreadableStates == {Missing, Directory, Unreadable, Locked, BadJson}

\* C28: load() replaces the current record, by the record the file holds,
\* only when it returns no error; when it returns an error (undecodable,
\* missing, a directory, no permission, invalid values) the current record
\* is what it was before the call; load never writes the file.
C28_LoadReplacesOrLeaves ==
    [][call'.op = "load"
          => /\ file' = file
             /\ ret' = NoError => current' = RecordIn(file)
             /\ ret' # NoError => current' = current
             /\ file \in UnreadableStates => (ret'.kind = "return" /\ ret'.err # None)]_vars

\* a failed load on a store that holds a record: the record is kept
C28_Witness ==
    /\ call.op = "load" /\ ret.kind = "return" /\ ret.err # None
    /\ current # Unset /\ current.host = JStr(HostK)
    /\ file.t = "rofile"

\* the settings file decodes to exactly the current record
Agree(state, cur) ==
    /\ cur # Unset
    /\ state.t \in {"file", "rofile"} /\ state.json.t = "object"
    /\ DOMAIN state.json.f = SettingsKeys
    /\ RecordIn(state) = cur
Saving(c, auto) == c.op = "save" \/ (c.op \in MutationOps /\ auto)

\* C29: a load, a save and, with autosave on, a mutation that return no
\* error leave the settings file decoding to exactly the current record, so
\* the two agree after any sequence of such steps; the file changes only in
\* a save or in a mutation with autosave on, and switching autosave changes
\* neither the file nor the record.
C29_DiskMemoryAgreement ==
    [][/\ ((call'.op = "load" \/ Saving(call', autosave)) /\ ret' = NoError)
             => Agree(file', current')
       /\ file' # file => Saving(call', autosave)
       /\ call'.op = "set_autosave" => (file' = file /\ current' = current)]_vars

\* autosave switched on again after a change made with autosave off: the
\* writable file still holds the record saved before
C29_Witness ==
    /\ call.op = "set_autosave" /\ autosave
    /\ current # Unset /\ current.host = JStr(HostK)
    /\ file.t = "file" /\ file.json.t = "object"
    /\ DOMAIN file.json.f = SettingsKeys /\ file.json.f["host"] = JStr(HostH)
    /\ file.json.f["api_request_timeout"] = current.api_request_timeout

ChangeOps == MutationOps \ {"generate"}

\* C30: on a store with a current record, change_host changes only the host,
\* change_api_request_timeout only the timeout, enable_shutdown and
\* disable_shutdown set shutdown_disabled to false and true whatever it was
\* (a second call changes nothing) and leave host and timeout as they were.
C30_OneFieldOnly ==
    [][(call'.op \in ChangeOps /\ current # Unset)
          => /\ current' # Unset
             /\ call'.op = "change_host"
                   => current' = [current EXCEPT !.host = call'.host]
             /\ call'.op = "change_api_request_timeout"
                   => current' = [current EXCEPT !.api_request_timeout = call'.timeout]
             /\ call'.op = "enable_shutdown"
                   => current' = [current EXCEPT !.shutdown_disabled = JBool(FALSE)]
             /\ call'.op = "disable_shutdown"
                   => current' = [current EXCEPT !.shutdown_disabled = JBool(TRUE)]
             /\ (call'.op = call.op /\ call'.op \in {"enable_shutdown", "disable_shutdown"})
                   => current' = current]_vars

\* disable_shutdown on a record with a changed host, autosave off
C30_Witness ==
    /\ call.op = "disable_shutdown" /\ ~autosave /\ ret = NoError
    /\ current = Settings(JStr(HostK), JInt(5), JBool(TRUE))
    /\ file = JsonText(JObject(Settings(JStr(HostH), JInt(5), JBool(TRUE))))

-----------------------------------------------------------------------------
(* Reduction claims *)

ReducedByIdOps == GetByIdOps \cup {"mappings_update_by_id"}

\* C23: for get-by-id and update-by-id whose exchange completed without
\* transport error, status 200 yields no error and every status other than
\* 200 and 404 yields 'Unexpected response status code <status> <reason>
\* from <url>'; with a transport error, that error is returned whatever the
\* status.
C23_OtherStatuses ==
    Reduced(ReducedByIdOps)
        => /\ ret.kind = "return"
           /\ (env.error = None /\ env.status_code = 200) => ret.err = None
           /\ (env.error = None /\ env.status_code \notin {200, 404})
                 => ret.err = Str(<<Lit("Unexpected response status code "),
                                    Num(env.status_code), Lit(" "), Lit(env.reason),
                                    Lit(" from "), Chars(env.url)>>)
           /\ env.error # None => ret.err = env.error

\* an update answered 500 Server Error
C23_Witness ==
    /\ Reduced({"mappings_update_by_id"}) /\ env.error = None
    /\ env.status_code = 500
    /\ ret.err = Str(<<Lit("Unexpected response status code "), Num(500), Lit(" "),
                       Lit("Server Error"), Lit(" from "), Chars(env.url)>>)

DerivedValueOps == {"journal_count_by_criteria", "recordings_status"}
DerivedKey == IF call.op = "journal_count_by_criteria" THEN KeyCount ELSE KeyStatus
StatusSetError(status) ==
    Str(<<Lit("Expected one of "), Lit("("), Num(200), Lit(",)"),
          Lit(" HTTP codes, got "), Num(status)>>)

\* C26: count_by_criteria and recording status replace the payload by the
\* count / status field only when the exchange completed with status 200;
\* for every other outcome the payload is left as decoded and the status-set
\* error is reported; every completed exchange, a 200 with an empty body
\* included, yields a (payload, error) result and no failure of the operation.
C26_DerivedValues ==
    Reduced(DerivedValueOps)
        => /\ ret.kind = "return"
           /\ env.status_code # 200
                 => (ret.data = env.data /\ ret.err = StatusSetError(env.status_code))
           /\ (env.status_code = 200 /\ env.data # None /\ IsDict(env.data)
                 /\ env.data.items # <<>> /\ env.data.items[1].k = DerivedKey)
                 => (ret.data = env.data.items[1].v /\ ret.err = None)

-----------------------------------------------------------------------------
(* Command line claims *)

Ran(command, flag) ==
    pc = "done" /\ call.op = "run" /\ call.command = command /\ call.flag = flag
BothInts(items) == py_int(items[1]).kind = "return" /\ py_int(items[2]).kind = "return"
\* the flags whose values are IDs handed to the Batch Iterator: mapping -get
\* (unless its two values are LIMIT OFFSET), mapping -delete, journal -get,
\* journal -delete, each with at least one value
BatchInvocation ==
    /\ pc = "done" /\ call.op = "run"
    /\ call.command \in {"mapping", "journal"} /\ call.flag \in {"get", "delete"}
    /\ call.values.items # <<>>
    /\ ~(call.command = "mapping" /\ call.flag = "get" /\ Len(call.values.items) = 2
           /\ BothInts(call.values.items))

\* C22: an invocation that is not a Batch Iterator invocation issues at most
\* one HTTP request; a Batch Iterator invocation issues exactly one request
\* per ID, in the order of the IDs.
C22_RequestCount ==
    (pc = "done" /\ call.op = "run")
        => IF BatchInvocation
           THEN /\ Len(sent) = Len(call.values.items)
                /\ \A i \in 1..Len(sent) :
                      sent[i].url.path[Len(sent[i].url.path)] = call.values.items[i]
           ELSE Len(sent) <= 1

IsDelayOfType(request, type) ==
    "type" \in DOMAIN request.json /\ request.json.type = type

\* C24: for service -delay A B with A and B both integers the only request
\* sent is uniform(A, B); when the uniform validation fails an error is
\* returned and no request is sent; a log-normal request is sent only when B
\* is no integer but parses as a float.
C24_DelayDispatch ==
    (Ran("service", "delay") /\ Len(call.values.items) = 2)
        => /\ BothInts(call.values.items)
                => /\ \A i \in 1..Len(sent) : IsDelayOfType(sent[i], "uniform")
                   /\ Uniform(py_int(call.values.items[1]).data,
                              py_int(call.values.items[2]).data).kind = "raise"
                         => /\ sent = <<>>
                            /\ ret.kind = "return" /\ ret.err # None
           /\ (\E i \in 1..Len(sent) : IsDelayOfType(sent[i], "lognormal"))
                => /\ py_int(call.values.items[2]).kind = "raise"
                   /\ py_float(call.values.items[2]).kind = "return"

\* the Domain Client operation each flag without a value list names
TargetOp == [
  service |-> [reset |-> "service_reset", stop |-> "service_shutdown"],
  mapping |-> [get_meta |-> "mappings_find_by_metadata", create |-> "mappings_create",
               delete_meta |-> "mappings_delete_by_metadata",
               reset |-> "mappings_reset", persist |-> "mappings_persist"],
  journal |-> [get_critaria |-> "journal_find_by_criteria",
               delete_critaria |-> "journal_delete_by_criteria",
               delete_metadata |-> "journal_delete_by_metadata",
               unmatched |-> "journal_get_unmatched",
               miss |-> "journal_get_unmatched_near_misses",
               miss_request |-> "journal_get_near_misses_by_request",
               miss_pattern |-> "journal_get_near_misses_by_pattern",
               reset |-> "journal_reset", count |-> "journal_count_by_criteria"],
  record |-> [start |-> "recordings_start", stop |-> "recordings_stop",
              status |-> "recordings_status", snapshot |-> "recordings_snapshot"],
  scenario |-> [get |-> "scenarios_get", reset |-> "scenarios_reset"],
  settings |-> <<>> ]
\* what the operation the flag names does for the flag's value
TargetResult ==
    LET op == TargetOp[call.command][call.flag]
    IN  IF call.values.t = "bool"
        THEN status_set_op(op, client, Api[op].path, None, None, call.outs[1])
        ELSE json_op(op, client, load_json_data(call.values.items[1], fs), call.outs[1])
\* the Batch Iterator over the IDs of journal -get
JournalGetResult ==
    iterate_request("journal_get_by_id", call.values.items,
                    AppState(client, file, current, autosave), call.outs, 1, NoAcc, <<>>)

\* C25: every flag reaches exactly the Domain Client operation it names and
\* the dispatcher returns that operation's (payload, error): the flags with
\* no value or one JSON value reach their operation, journal -get with IDs
\* reaches Journal.get_by_id once per ID, and settings -gen reaches generate.
C25_FlagDispatch ==
    (pc = "done" /\ call.op = "run")
        => /\ call.flag \in DOMAIN TargetOp[call.command]
                => (sent = TargetResult.sent /\ ret = TargetResult.ret)
           /\ (Ran("journal", "get") /\ call.values.items # <<>>)
                => (sent = JournalGetResult.sent /\ ret = JournalGetResult.ret)
           /\ Ran("settings", "gen") /\ py_int(call.values.items[2]).kind = "return"
                => (ret.kind = "return" /\ current.host = JStr(call.values.items[1]))

=============================================================================
